---- MODULE Spec2Model ----
(***************************************************************************)
(* Tries of terms (src/pl-trie.c, src/pl-trie.h).                          *)
(*                                                                         *)
(* A trie maps the token sequence of a term (functor, atomic, variable     *)
(* ordinal and pop tokens) to a value stored in the node that ends the     *)
(* sequence.  The heap of trie nodes is modelled explicitly: a node is a   *)
(* slot of `nodes`, a pointer is a slot number and NULL is -1.             *)
(***************************************************************************)
EXTENDS Integers, Sequences, FiniteSets, TLC

(***************************************************************************)
(* Bounds of the model                                                     *)
(***************************************************************************)
\* number of heap slots PL_malloc can hand out for trie nodes (root excluded)
MaxNodes == 8
\* insertions are taken while trie->node_count is below this
MaxNodeCount == 6
\* the threads of the concurrent specifications
NThreads == 3
\* the limit of the allocation pool, in nodes
PoolLimit == 2
\* acquire_trie() by other holders is taken while references is below this
MaxReferences == 2
\* the calls of unify_trie_path() a thread makes one after the other
MaxDecodes == 3

\* the count of compounds at which an adding walk tests the key for cycles
\* (the test of line 511 at a count the heap of the model can reach)
CompoundsChecked == 2

NULL == -1
ROOT == 0
NodeIds == 0..MaxNodes

TRIE_MAGIC  == "TRIE_MAGIC"
TRIE_CMAGIC == "TRIE_CMAGIC"

(***************************************************************************)
(* Terms (the host value model).  A term is an atom, a variable or a       *)
(* compound; a variable is identified by its name (its address).           *)
(***************************************************************************)
Atom(a)     == [tag |-> "atom", name |-> a, args |-> <<>>]
Var(x)      == [tag |-> "var", name |-> x, args |-> <<>>]
Cmp(f, as)  == [tag |-> "compound", name |-> f, args |-> as]
AttVar(x)   == [tag |-> "attvar", name |-> x, args |-> <<>>]

\* an argument that points back at the compound c it is in (a cyclic term)
Cyc(c)      == [tag |-> "cyc", name |-> c, args |-> <<>>]

VarNames == {"X", "Y"}

\* the cyclic terms: C1 = f(X, C1) and C2 = f(h(a), C2)
CycTerm(c) ==
  IF c = "C1" THEN Cmp("f", <<Var("X"), Cyc("C1")>>)
  ELSE Cmp("f", <<Cmp("h", <<Atom("a")>>), Cyc("C2")>>)

\* the cell a reference leads to
deRef(t) == IF t.tag = "cyc" THEN CycTerm(t.name) ELSE t

\* is_acyclic(p): no argument of p leads back into p
RECURSIVE is_acyclic(_)
is_acyclic(t) ==
  CASE t.tag = "cyc"      -> FALSE
    [] t.tag = "compound" -> \A i \in 1..Len(t.args) : is_acyclic(t.args[i])
    [] OTHER              -> TRUE

\* keys that are rejected: they hold an attributed variable or a cycle
AttVarKeys == { AttVar("X"), Cmp("f", <<Var("X"), AttVar("Y")>>) }
CyclicKeys == { CycTerm("C1"), CycTerm("C2") }

\* the key terms the operations draw from
Keys ==
  { Atom("a"),
    Cmp("f", <<Var("X"), Var("Y")>>),
    Cmp("f", <<Var("Y"), Var("X")>>),
    Cmp("f", <<Var("X"), Var("X")>>) }

\* t1 and t2 are equal up to a consistent renaming of variables
RECURSIVE Rename(_, _)
Rename(t, s) ==
  CASE t.tag = "var"      -> Var(s[t.name])
    [] t.tag = "attvar"   -> AttVar(s[t.name])
    [] t.tag = "compound" ->
         Cmp(t.name, [i \in 1..Len(t.args) |-> Rename(t.args[i], s)])
    [] OTHER -> t

Renamings == { s \in [VarNames -> VarNames] : \A x, y \in VarNames : s[x] = s[y] => x = y }

Variant(t1, t2) == \E s \in Renamings : Rename(t1, s) = t2

(***************************************************************************)
(* Values: an inline atom or a recorded term (compared structurally).      *)
(***************************************************************************)
NoValue     == [kind |-> "none", v |-> ""]
AtomValue(a) == [kind |-> "atom", v |-> a]
Record(r)   == [kind |-> "record", v |-> r]
\* unbound output argument of a predicate
Unbound     == [kind |-> "unbound", v |-> ""]

\* the values the operations draw from: an atom and two recorded terms that
\* are variants of each other
Values      == { AtomValue("v1"), Record(Var("X")), Record(Var("Y")) }

isRecord(w) == w.kind = "record"
isAtom(w)   == w.kind = "atom"

(***************************************************************************)
(* Tokens: the keys of trie nodes.                                         *)
(***************************************************************************)
NoKey          == [k |-> "none", n |-> "", i |-> 0]
AtomKey(a)     == [k |-> "atom", n |-> a, i |-> 0]
FunctorKey(f, arity) == [k |-> "functor", n |-> f, i |-> arity]
VarKey(i)      == [k |-> "var", n |-> "", i |-> i]
TRIE_ERROR_VAL == [k |-> "reserved", n |-> "", i |-> 1]
TRIE_KEY_POP   == [k |-> "reserved", n |-> "", i |-> 2]

\* the order in which a table enumeration meets the keys of a table (the
\* bucket order of pl-table.c): by kind, then name, then number
KindRank(k) ==
  CASE k = "functor" -> 1 [] k = "atom" -> 2 [] k = "var" -> 3
    [] k = "reserved" -> 4 [] OTHER -> 0

KeyBefore(k1, k2) ==
  \/ KindRank(k1.k) < KindRank(k2.k)
  \/ /\ k1.k = k2.k
     /\ \/ k1.i < k2.i
        \/ k1.i = k2.i /\ k1.n = "a" /\ k2.n # "a"

(***************************************************************************)
(* Hash tables (pl-table.c): a table is the set of its [key, child]        *)
(* entries, keys unique.                                                   *)
(***************************************************************************)
lookupHTable(table, key) ==
  IF \E e \in table : e.key = key
    THEN (CHOOSE e \in table : e.key = key).child
    ELSE NULL

\* add unless the key is present; the entry that is in the table afterwards
addHTable(table, key, child) ==
  IF \E e \in table : e.key = key
    THEN [table |-> table, value |-> lookupHTable(table, key)]
    ELSE [table |-> table \cup {[key |-> key, child |-> child]}, value |-> child]

deleteHTable(table, key) == { e \in table : e.key # key }

(***************************************************************************)
(* Nodes and children representations (pl-trie.h)                           *)
(***************************************************************************)
NoChildren == [type |-> "none", key |-> NoKey, child |-> NULL, table |-> {}]
TN_KEY(key, child) == [type |-> "key", key |-> key, child |-> child, table |-> {}]
TN_HASHED(table)   == [type |-> "hashed", key |-> NoKey, child |-> NULL, table |-> table]

\* a slot PL_malloc has not handed out, or PL_free has taken back
FreeNode ==
  [live |-> FALSE, cleared |-> FALSE, key |-> NoKey, value |-> NoValue,
   parent |-> NULL, children |-> NoChildren]

\* memset(n, 0, sizeof(*n)); n->key = key
FreshNode(key) ==
  [live |-> TRUE, cleared |-> FALSE, key |-> key, value |-> NoValue,
   parent |-> NULL, children |-> NoChildren]

\* the children a node points to
ChildrenOf(c) ==
  CASE c.type = "key"    -> {c.child}
    [] c.type = "hashed" -> {e.child : e \in c.table}
    [] OTHER             -> {}

\* COMPARE_AND_SWAP(&loc, old, new): the value of loc afterwards
CAS_value(cur, old, new) == IF cur = old THEN new ELSE cur
CAS_ok(cur, old)         == cur = old

\* get_child() without the key comparison of the TN_KEY case
get_child_any_key(T, n, key) ==
  CASE T.nodes[n].children.type = "key" -> T.nodes[n].children.child
    [] T.nodes[n].children.type = "hashed" ->
         lookupHTable(T.nodes[n].children.table, key)
    [] OTHER -> NULL

get_child(T, n, key) ==
  CASE T.nodes[n].children.type = "key" ->
         IF T.nodes[n].children.key = key
           THEN T.nodes[n].children.child ELSE NULL
    [] T.nodes[n].children.type = "hashed" ->
         lookupHTable(T.nodes[n].children.table, key)
    [] OTHER -> NULL

\* PL_malloc(sizeof(trie_node)): a free slot, NULL when the heap is exhausted
PL_malloc(T) ==
  IF \E i \in 1..MaxNodes : ~T.nodes[i].live
    THEN CHOOSE i \in 1..MaxNodes :
           ~T.nodes[i].live /\ \A j \in 1..(i-1) : T.nodes[j].live
    ELSE NULL

\* trie->alloc_pool: NULL, or a pool with its size and limit in nodes
NoPool == [on |-> FALSE, size |-> 0, limit |-> 0]
PoolOf(limit) == [on |-> TRUE, size |-> 0, limit |-> limit]

\* line 250 of new_trie_node(): there is no pool or the node fits in it
pool_fits(T) == ~T.pool.on \/ T.pool.size + 1 <= T.pool.limit

\* line 251 of new_trie_node(): ATOMIC_ADD(&trie->alloc_pool->size, ...)
pool_charged(T) == IF T.pool.on THEN [T EXCEPT !.pool.size = @ + 1] ELSE T

\* new_trie_node() once PL_malloc() has returned n
new_node_at(T, key, n) ==
  IF n # NULL
    THEN [T |-> [T EXCEPT !.nodes[n] = FreshNode(key),
                          !.node_count = @ + 1],
          node |-> n]
    ELSE [T |-> T, node |-> NULL]

new_trie_node(T, key) ==
  IF pool_fits(T)
    THEN new_node_at(pool_charged(T), key, PL_malloc(T))
    ELSE [T |-> T, node |-> NULL]

\* release_value(value): drop one reference to the value
release_value(T, value) ==
  IF isAtom(value) \/ isRecord(value)
    THEN [T EXCEPT !.vrefs[value] = @ - 1]
    ELSE T

\* lines 276-283 of clear_node(): release the key and the value of n
release_node(T, n) ==
  [(IF T.nodes[n].value # NoValue
      THEN release_value(T, T.nodes[n].value) ELSE T)
   EXCEPT !.nodes[n].cleared = TRUE]

\* lines 285-292 of clear_node(): n had children and the CAS to NULL succeeded
detach_children(T, n, dealloc) ==
  IF dealloc
    THEN [T EXCEPT !.node_count = @ - 1, !.nodes[n] = FreeNode,
                   !.pool.size = IF T.pool.on THEN @ - 1 ELSE @]
    ELSE [T EXCEPT !.nodes[n].children = NoChildren]

RECURSIVE clear_node(_, _, _)
RECURSIVE clear_table(_, _)
RECURSIVE clear_children(_, _)

\* the while(advanceTableEnum(e, &k, &v)) clear_node(trie, v, TRUE) loop
clear_table(T, entries) ==
  IF entries = {} THEN T
  ELSE clear_table(clear_node(T, (CHOOSE x \in entries : TRUE).child, TRUE),
                   entries \ {CHOOSE x \in entries : TRUE})

\* lines 294-316 of clear_node(): go on with the children that were detached
clear_children(T, children) ==
  IF children.type = "key"
    THEN clear_node(T, children.child, TRUE)
    ELSE clear_table(T, children.table)

clear_node(T, n, dealloc) ==
  IF T.nodes[n].children.type # "none"
    THEN clear_children(detach_children(release_node(T, n), n, dealloc),
                        T.nodes[n].children)
    ELSE release_node(T, n)

destroy_node(T, n) == clear_node(T, n, TRUE)

\* trie_empty() that clears the nodes whatever trie->references is
trie_empty_now(T, refs) == clear_node(T, ROOT, FALSE)

\* trie_empty() after trie->magic = TRIE_CMAGIC, refs is trie->references
trie_empty(T, refs) ==
  IF refs = 0 THEN clear_node(T, ROOT, FALSE) ELSE T

\* trie_clean()
trie_clean(T, magic, refs) ==
  IF magic = TRIE_CMAGIC THEN trie_empty(T, refs) ELSE T

\* release_trie(t) that left `left` references
release_trie(T, magic, left) ==
  IF left = 0 THEN trie_clean(T, magic, left) ELSE T

\* prune_node() that leaves n among the children of its parent
prune_detach_never(T, n, p, children) == T

\* prune_node() that takes the table away with its last entry
prune_detach_downgrades(T, n, p, children) ==
  CASE children.type = "key" ->
         [T EXCEPT !.nodes[p].children =
            CAS_value(T.nodes[p].children, children, NoChildren)]
    [] children.type = "hashed" ->
         IF deleteHTable(children.table, T.nodes[n].key) = {}
           THEN [T EXCEPT !.nodes[p].children = NoChildren]
           ELSE [T EXCEPT !.nodes[p].children.table =
                   deleteHTable(children.table, T.nodes[n].key)]
    [] OTHER -> T

\* lines 345-356 of prune_node(): take n out of the children of its parent p
prune_detach(T, n, p, children) ==
  CASE children.type = "key" ->
         [T EXCEPT !.nodes[p].children =
            CAS_value(T.nodes[p].children, children, NoChildren)]
    [] children.type = "hashed" ->
         [T EXCEPT !.nodes[p].children.table =
            deleteHTable(children.table, T.nodes[n].key)]
    [] OTHER -> T

RECURSIVE prune_loop(_, _, _)
RECURSIVE prune_step(_, _, _, _)

\* a round of prune_node() that goes on to the parent whatever is left there
prune_step_on(T1, n, p, empty) ==
  prune_loop(destroy_node(T1, n), p, TRUE)

\* one round of the for loop of prune_node(), T1 is the trie after the detach
prune_step(T1, n, p, empty) ==
  prune_loop(destroy_node(T1, n), p,
             IF T1.nodes[p].children.type = "hashed"
               THEN T1.nodes[p].children.table = {}
               ELSE empty)

prune_loop(T, n, empty) ==
  IF ~(empty /\ T.nodes[n].parent # NULL) THEN T
  ELSE prune_step(prune_detach(T, n, T.nodes[n].parent,
                               T.nodes[T.nodes[n].parent].children),
                  n, T.nodes[n].parent, empty)

prune_node(T, n) == prune_loop(T, n, TRUE)

\* insert_child() after new_trie_node() returned a = [T, node]; no other
\* thread runs between the read of n->children and the CAS, which succeeds
insert_child_new(T, n, key, a) ==
  IF a.node = NULL THEN [T |-> a.T, node |-> NULL]
  ELSE
    CASE T.nodes[n].children.type = "key" ->
           IF T.nodes[n].children.key = key
             THEN [T |-> a.T, node |-> T.nodes[n].children.child]
             ELSE [T |-> [a.T EXCEPT
                            !.nodes[n].children =
                               CAS_value(a.T.nodes[n].children, T.nodes[n].children,
                                 TN_HASHED({[key |-> T.nodes[n].children.key,
                                             child |-> T.nodes[n].children.child],
                                            [key |-> key, child |-> a.node]})),
                            !.nodes[a.node].parent = n],
                   node |-> a.node]
      [] T.nodes[n].children.type = "hashed" ->
           IF addHTable(T.nodes[n].children.table, key, a.node).value = a.node
             THEN [T |-> [a.T EXCEPT
                            !.nodes[n].children.table =
                               addHTable(T.nodes[n].children.table, key, a.node).table,
                            !.nodes[a.node].parent = n],
                   node |-> a.node]
             ELSE [T |-> destroy_node(a.T, a.node),
                   node |-> addHTable(T.nodes[n].children.table, key, a.node).value]
      [] OTHER ->
           [T |-> [a.T EXCEPT
                     !.nodes[n].children =
                        CAS_value(a.T.nodes[n].children, NoChildren,
                                  TN_KEY(key, a.node)),
                     !.nodes[a.node].parent = n],
            node |-> a.node]

insert_child(T, n, key) == insert_child_new(T, n, key, new_trie_node(T, key))

\* follow_node() that adds a child without looking for an existing one
follow_node_no_get(T, n, value, add) ==
  IF add THEN insert_child(T, n, value)
  ELSE [T |-> T, node |-> get_child(T, n, value)]

\* follow_node() that adds a node also when get_child() found one
follow_child_adds(T, n, value, add, child) ==
  IF add THEN insert_child(T, n, value)
  ELSE [T |-> T, node |-> child]

\* follow_node() after get_child() returned child
follow_child(T, n, value, add, child) ==
  IF child # NULL THEN [T |-> T, node |-> child]
  ELSE IF add THEN insert_child(T, n, value)
  ELSE [T |-> T, node |-> NULL]

follow_node(T, n, value, add) ==
  follow_child(T, n, value, add, get_child(T, n, value))

(***************************************************************************)
(* The term agenda (pl-termwalk.c): a stack of work lists.  A compound     *)
(* pushes its arguments; when a pushed list is used up the walk gets       *)
(* AC_TERM_POP once and continues with the list below.                     *)
(***************************************************************************)
initTermAgenda_P(k) == << <<k>> >>

nextTermAgenda_P(agenda) ==
  LET work == agenda[Len(agenda)] IN
  IF Len(work) > 0
    THEN [kind |-> "term", term |-> deRef(Head(work)),
          agenda |-> [agenda EXCEPT ![Len(agenda)] = Tail(work)]]
    ELSE IF Len(agenda) > 1
      THEN [kind |-> "pop", term |-> Atom(""),
            agenda |-> SubSeq(agenda, 1, Len(agenda) - 1)]
      ELSE [kind |-> "null", term |-> Atom(""), agenda |-> agenda]

pushWorkAgenda_P(agenda, args) == Append(agenda, args)

(***************************************************************************)
(* trie_lookup(): walk the key, following or adding a node per token.      *)
(* The in-place rewrite of a variable to its ordinal is `marks`: the       *)
(* ordinal written into the variable's cell, 0 while it is unbound.        *)
(***************************************************************************)
NoMarks == [x \in VarNames |-> 0]

\* prune_error() that prunes from the node the walk stands at
prune_error_at_node(T, node) == prune_node(T, node)

\* prune_error(): add a node for the error key and prune from there
prune_added(f) == IF f.node = NULL THEN f.T ELSE prune_node(f.T, f.node)

prune_error(T, node) == prune_added(follow_node(T, node, TRIE_ERROR_VAL, TRUE))

\* case TAG_VAR without the isVar() test: every occurrence gets a new ordinal
var_key_always_new(w, p) ==
  [var_number |-> w.var_number + 1,
   marks |-> [w.marks EXCEPT ![p.name] = w.var_number + 1]]

\* case TAG_VAR of trie_lookup(): number an unbound variable, reuse a mark
var_key(w, p) ==
  LET fresh == w.marks[p.name] = 0
      vn    == IF fresh THEN w.var_number + 1 ELSE w.var_number
  IN [var_number |-> vn,
      marks |-> IF fresh THEN [w.marks EXCEPT ![p.name] = vn] ELSE w.marks]

\* term_key() that gives an atom the key of a functor
term_key_as_functor(w, p) ==
  CASE p.tag = "var"      -> VarKey(var_key(w, p).marks[p.name])
    [] p.tag = "compound" -> FunctorKey(p.name, Len(p.args))
    [] p.tag = "attvar"   -> NoKey
    [] OTHER              -> FunctorKey("f", 2)

\* the key that the term p met by the walk stands for (lines 496-531)
term_key(w, p) ==
  CASE p.tag = "var"      -> VarKey(var_key(w, p).marks[p.name])
    [] p.tag = "compound" -> FunctorKey(p.name, Len(p.args))
    [] p.tag = "attvar"   -> NoKey
    [] OTHER              -> AtomKey(p.name)

\* the walk after it has taken nx from the agenda
walk_taken(w, nx, add) ==
  CASE nx.kind = "pop" -> [w EXCEPT !.agenda = nx.agenda]
    [] nx.term.tag = "var" ->
         [w EXCEPT !.agenda = nx.agenda,
                   !.var_number = var_key(w, nx.term).var_number,
                   !.marks = var_key(w, nx.term).marks]
    [] nx.term.tag = "compound" ->
         [w EXCEPT !.agenda = pushWorkAgenda_P(nx.agenda, nx.term.args),
                   !.compounds = IF add THEN @ + 1 ELSE @]
    [] OTHER -> [w EXCEPT !.agenda = nx.agenda]

\* the test of line 511: the compound p is the one counted CompoundsChecked
\* by an adding walk and it is cyclic
cyclic_found(w, p, add) ==
  add /\ w.compounds + 1 = CompoundsChecked /\ ~is_acyclic(p)

\* lines 502-505 and 512-514: the walk is given up with rc
walk_error(w, nx, rc, add) ==
  [w EXCEPT !.agenda = nx.agenda, !.rc = rc, !.node = NULL,
            !.compounds = IF add /\ nx.term.tag = "compound" THEN @ + 1 ELSE @]

\* the walk at the start of trie_lookup()
walk_start(k) ==
  [agenda |-> initTermAgenda_P(k), node |-> ROOT, var_number |-> 0,
   marks |-> NoMarks, rc |-> "TRUE", compounds |-> 0]

RECURSIVE lookup_walk(_, _, _)
RECURSIVE lookup_next(_, _, _, _)
RECURSIVE lookup_followed(_, _, _)

\* node = follow_node(...) and the next round of the loop
lookup_followed(w, add, f) ==
  lookup_walk(f.T, [w EXCEPT !.node = f.node], add)

\* one round of the while loop of trie_lookup(), nx is what the agenda gave
lookup_next(T, w, add, nx) ==
  CASE nx.kind = "null" -> [T |-> T, w |-> w]
    [] nx.kind = "pop" ->
         lookup_followed(walk_taken(w, nx, add), add,
                         follow_node(T, w.node, TRIE_KEY_POP, add))
    [] nx.term.tag = "attvar" ->
         [T |-> prune_error(T, w.node),
          w |-> walk_error(w, nx, "TRIE_LOOKUP_CONTAINS_ATTVAR", add)]
    [] nx.term.tag = "compound" /\ cyclic_found(w, nx.term, add) ->
         [T |-> prune_error(T, w.node),
          w |-> walk_error(w, nx, "TRIE_LOOKUP_CYCLIC", add)]
    [] OTHER ->
         lookup_followed(walk_taken(w, nx, add), add,
                         follow_node(T, w.node, term_key(w, nx.term), add))

lookup_walk(T, w, add) ==
  IF w.node = NULL THEN [T |-> T, w |-> w]
  ELSE lookup_next(T, w, add, nextTermAgenda_P(w.agenda))

\* clear_vars() that leaves the marks in the variables
clear_vars_none(work, var_number, marks) == marks

\* clear_vars(): reset the first var_number marked variables met in walk order
RECURSIVE clear_vars(_, _, _)
clear_vars(work, var_number, marks) ==
  IF var_number = 0 \/ work = <<>> THEN marks
  ELSE
    CASE Head(work).tag = "var" ->
           IF marks[Head(work).name] # 0
             THEN clear_vars(Tail(work), var_number - 1,
                             [marks EXCEPT ![Head(work).name] = 0])
             ELSE clear_vars(Tail(work), var_number, marks)
      [] deRef(Head(work)).tag = "compound" ->
           clear_vars(deRef(Head(work)).args \o Tail(work), var_number, marks)
      [] OTHER -> clear_vars(Tail(work), var_number, marks)

\* lines 535-545 of trie_lookup(): r is the trie and the walk after the loop
lookup_result(k, r) ==
  [T |-> r.T,
   rc |-> IF r.w.rc = "TRUE" /\ r.w.node = NULL THEN "FALSE" ELSE r.w.rc,
   node |-> IF r.w.rc = "TRUE" THEN r.w.node ELSE NULL,
   marks |-> clear_vars(<<k>>, r.w.var_number, r.w.marks)]

trie_lookup(T, k, add) ==
  lookup_result(k, lookup_walk(T, walk_start(k), add))

\* the tokens trie_lookup() follows for a key, from the walk w on
RECURSIVE walk_keys(_, _)
walk_keys(w, nx) ==
  IF nx.kind = "null" THEN <<>>
  ELSE <<IF nx.kind = "pop" THEN TRIE_KEY_POP ELSE term_key(w, nx.term)>>
         \o walk_keys(walk_taken(w, nx, FALSE),
                      nextTermAgenda_P(walk_taken(w, nx, FALSE).agenda))

\* the token sequence of the key k
key_tokens(k) ==
  walk_keys(walk_start(k), nextTermAgenda_P(initTermAgenda_P(k)))

\* the token sequence on the path from the root to node n (root first)
RECURSIVE PathKeys(_, _)
PathKeys(T, n) ==
  IF T.nodes[n].parent = NULL THEN <<>>
  ELSE Append(PathKeys(T, T.nodes[n].parent), T.nodes[n].key)

(***************************************************************************)
(* Values of nodes                                                         *)
(***************************************************************************)
variantRecords(r1, r2) == Variant(r1.v, r2.v)

equal_value(v1, v2) ==
  IF v1 = v2 THEN TRUE
  ELSE IF isRecord(v1) /\ isRecord(v2) THEN variantRecords(v1, v2)
  ELSE FALSE

\* intern_value(): PL_record() makes a new record, an atom is used as it is
intern_value(T, value) ==
  IF isRecord(value) THEN [T EXCEPT !.vrefs[value] = @ + 1] ELSE T

\* acquire_key(val): registers an atom
acquire_key(T, value) ==
  IF isAtom(value) THEN [T EXCEPT !.vrefs[value] = @ + 1] ELSE T

\* PL_erase((record_t)val) under if ( isRecord(val) )
erase_record(T, value) ==
  IF isRecord(value) THEN [T EXCEPT !.vrefs[value] = @ - 1] ELSE T

\* unify_value(t, value): t is unbound or a value
unify_value(t, value) == t = Unbound \/ equal_value(t, value)

\* trie_error(rc, culprit)
trie_error(rc) ==
  CASE rc = "TRIE_LOOKUP_CONTAINS_ATTVAR" -> "type_error(free_of_attvar)"
    [] rc = "TRIE_LOOKUP_CYCLIC"          -> "type_error(acyclic_term)"
    [] OTHER                              -> "none"

\* what a predicate call did: the trie afterwards, success, the error raised,
\* the node reached and the value found at that node
Result(T, rc, err, node, out) ==
  [T |-> T, rc |-> rc, err |-> err, node |-> node, out |-> out]

\* get_trie(t, &trie) for a handle that is a trie blob accepts any trie that
\* was created, destroyed or not
get_trie_marked(magic) == magic \in {TRIE_MAGIC, TRIE_CMAGIC}

\* get_trie(t, &trie) for a handle that is a trie blob: FALSE comes with
\* PL_existence_error("trie", t)
get_trie(magic) == magic = TRIE_MAGIC

\* is_trie/1 for a handle that is a trie blob
is_trie(magic) == magic = TRIE_MAGIC

InvalidHandle(T) == Result(T, FALSE, "existence_error(trie)", NULL, NoValue)

\* the value of the node was replaced by val (lines 1035-1039)
replace_value(T, node, val, old) ==
  release_value([acquire_key(T, val) EXCEPT !.nodes[node].value = val], old)

\* insert_existing() that replaces the value in strict mode too
insert_existing_overwrite(T, node, val, update) ==
  IF ~equal_value(T.nodes[node].value, val)
    THEN Result(replace_value(T, node, val, T.nodes[node].value),
                TRUE, "none", node, T.nodes[node].value)
    ELSE Result(erase_record(T, val), update, "none", node, T.nodes[node].value)

\* insert_existing() that forgets release_value(old) when it replaces
insert_existing_no_release(T, node, val, update) ==
  IF update
    THEN IF ~equal_value(T.nodes[node].value, val)
           THEN Result([acquire_key(T, val) EXCEPT !.nodes[node].value = val],
                       TRUE, "none", node, T.nodes[node].value)
           ELSE Result(erase_record(T, val), TRUE, "none", node, T.nodes[node].value)
    ELSE Result(erase_record(T, val), FALSE,
                IF ~equal_value(T.nodes[node].value, val)
                  THEN "permission_error(modify,trie_key)" ELSE "none",
                node, T.nodes[node].value)

\* lines 1032-1053 of trie_insert(): the node already has a value
insert_existing(T, node, val, update) ==
  IF update
    THEN IF ~equal_value(T.nodes[node].value, val)
           THEN Result(replace_value(T, node, val, T.nodes[node].value),
                       TRUE, "none", node, T.nodes[node].value)
           ELSE Result(erase_record(T, val), TRUE, "none", node, T.nodes[node].value)
    ELSE Result(erase_record(T, val), FALSE,
                IF ~equal_value(T.nodes[node].value, val)
                  THEN "permission_error(modify,trie_key)" ELSE "none",
                node, T.nodes[node].value)

\* lines 1054-1058 of trie_insert(): the node has no value yet
insert_new(T, node, val) ==
  Result([acquire_key(T, val) EXCEPT !.nodes[node].value = val,
                                     !.value_count = @ + 1],
         TRUE, "none", node, NoValue)

\* lines 1027-1058 of trie_insert(): T1 is the trie after intern_value()
insert_value(T1, node, Value, update) ==
  IF T1.nodes[node].value # NoValue
    THEN insert_existing(T1, node, Value, update)
    ELSE insert_new(T1, node, Value)

\* lines 1026-1061 of trie_insert(): l is what trie_lookup() returned
insert_found(l, Value, update) ==
  IF l.rc = "TRUE"
    THEN insert_value(intern_value(l.T, Value), l.node, Value, update)
    ELSE Result(l.T, FALSE, trie_error(l.rc), NULL, NoValue)

\* trie_insert(Trie, Key, Value, nodep, update)
trie_insert(T, magic, Key, Value, update) ==
  IF ~get_trie(magic) THEN InvalidHandle(T)
  ELSE insert_found(trie_lookup(T, Key, TRUE), Value, update)

\* lines 1137-1139 of trie_delete/3: prune and count down
delete_pruned(T1, node, value) ==
  Result([T1 EXCEPT !.value_count = @ - 1], TRUE, "none", node, value)

\* lines 1134-1145 of trie_delete/3: l is what trie_lookup() returned
delete_found(l, A3) ==
  IF l.rc = "TRUE"
    THEN IF l.T.nodes[l.node].value # NoValue
            /\ unify_value(A3, l.T.nodes[l.node].value)
           THEN delete_pruned(prune_node(l.T, l.node), l.node,
                              l.T.nodes[l.node].value)
           ELSE Result(l.T, FALSE, "none", l.node, NoValue)
    ELSE Result(l.T, FALSE, trie_error(l.rc), NULL, NoValue)

\* trie_delete(trie, node, prune) that prunes whatever prune is
trie_delete_prunes(T, node, prune) ==
  IF T.nodes[node].value = NoValue THEN T
  ELSE [prune_node(T, node) EXCEPT !.value_count = @ - 1]

\* trie_delete(trie, node, prune)
trie_delete(T, node, prune) ==
  IF T.nodes[node].value = NoValue THEN T
  ELSE [(IF prune
           THEN prune_node(T, node)
           ELSE [release_value(T, T.nodes[node].value)
                   EXCEPT !.nodes[node].value = NoValue])
        EXCEPT !.value_count = @ - 1]

\* trie_delete/3
trie_delete_pred(T, magic, Key, A3) ==
  IF ~get_trie(magic) THEN InvalidHandle(T)
  ELSE delete_found(trie_lookup(T, Key, FALSE), A3)

\* lines 1164-1170 of trie_lookup/3: l is what trie_lookup() returned
lookup_found(l) ==
  IF l.rc = "TRUE"
    THEN IF l.T.nodes[l.node].value # NoValue
           THEN Result(l.T, TRUE, "none", l.node, l.T.nodes[l.node].value)
           ELSE Result(l.T, FALSE, "none", l.node, NoValue)
    ELSE Result(l.T, FALSE, trie_error(l.rc), NULL, NoValue)

\* trie_lookup/3 with an unbound third argument
trie_lookup_pred(T, magic, Key) ==
  IF ~get_trie(magic) THEN InvalidHandle(T)
  ELSE lookup_found(trie_lookup(T, Key, FALSE))

(***************************************************************************)
(* trie_gen/3: the choice point stack and the decoder of key paths.  Key   *)
(* is an unbound variable in every call.                                   *)
(***************************************************************************)
\* what an uninitialised pointer holds: an address that is not a node
WILD == -2

\* the memory a wild pointer leads to: unmapped, zeroed, or something that
\* reads as a node with a value
Wild ==
  {FreeNode} \cup
  {[FreshNode(AtomKey("a")) EXCEPT !.value = w] : w \in {NoValue, AtomValue("v1")}}

\* *n, for M = [nodes, wild]
NodeAt(M, n) ==
  CASE n \in NodeIds -> M.nodes[n]
    [] n = WILD      -> M.wild
    [] OTHER         -> FreeNode

\* TableEnum (pl-table.c): the table of a node and the key it gave last
NoEnum == [on |-> FALSE, node |-> NULL, key |-> NoKey]
newTableEnum(n) == [on |-> TRUE, node |-> n, key |-> NoKey]

\* the bucket order depends on the hashes of the keys: M.down is the order
\* of KeyBefore turned round
Before(M, k1, k2) ==
  IF M.down THEN KeyBefore(k2, k1) ELSE KeyBefore(k1, k2)

\* the entries a table enumeration has not given yet
EnumLeft(M, e) ==
  { x \in NodeAt(M, e.node).children.table :
      e.key = NoKey \/ Before(M, e.key, x.key) }

\* the first of a non-empty set of entries
FirstEntry(M, left) ==
  CHOOSE x \in left : \A y \in left : y = x \/ Before(M, x.key, y.key)

\* ch after advanceTableEnum(ch->choice.table, &k, &v) and the assignments
\* ch->key = k; ch->child = v: k and v are not written when it returns FALSE
advanced(M, ch, left) ==
  IF left = {}
    THEN [ch EXCEPT !.key = M.wild.key, !.child = WILD]
    ELSE [table |-> [ch.table EXCEPT !.key = FirstEntry(M, left).key],
          key |-> FirstEntry(M, left).key, child |-> FirstEntry(M, left).child]

\* add_choice(state, node): the new top of the stack
add_choice(M, node) ==
  CASE NodeAt(M, node).children.type = "key" ->
         [table |-> NoEnum, key |-> NodeAt(M, node).children.key,
          child |-> NodeAt(M, node).children.child]
    [] NodeAt(M, node).children.type = "hashed" ->
         advanced(M, [table |-> newTableEnum(node), key |-> NoKey, child |-> NULL],
                  EnumLeft(M, newTableEnum(node)))
    [] OTHER -> [table |-> NoEnum, key |-> NoKey, child |-> node]

\* descent_node(state, ch) with ch the top of the stack gs; reading through a
\* NULL pointer or unmapped memory is a fault
RECURSIVE descent_node(_, _)
descent_node(M, gs) ==
  IF ~NodeAt(M, gs[Len(gs)].child).live
    THEN [gs |-> gs, ok |-> FALSE, fault |-> TRUE, lost |-> 0]
  ELSE IF NodeAt(M, gs[Len(gs)].child).children.type # "none"
    THEN descent_node(M, Append(gs, add_choice(M, gs[Len(gs)].child)))
  ELSE [gs |-> gs, ok |-> NodeAt(M, gs[Len(gs)].child).value # NoValue,
        fault |-> FALSE, lost |-> 0]

\* advance_node(ch)
advance_node(M, ch) ==
  IF ch.table.on /\ EnumLeft(M, ch.table) # {}
    THEN [ok |-> TRUE, ch |-> advanced(M, ch, EnumLeft(M, ch.table))]
    ELSE [ok |-> FALSE, ch |-> ch]

RECURSIVE next_choice(_, _)
RECURSIVE next_descended(_, _, _)

\* r, and k more table enumerations that were not freed
with_lost(r, k) == [r EXCEPT !.lost = @ + k]

\* the choice points of gs above the n-th that hold a table enumeration:
\* state->choicepoints.top = (char*)ch drops them, freeTableEnum() is called
\* for ch only
dropped(gs, n) == Cardinality({ i \in (n + 1)..Len(gs) : gs[i].table.on })

\* lines 1510-1517 of next_choice(): d is what descent_node() returned
next_descended(M, gs, d) ==
  IF d.ok \/ d.fault THEN d
  ELSE with_lost(next_choice(M, SubSeq(gs, 1, Len(gs) - 1)),
                 dropped(d.gs, Len(gs)))

\* lines 1509-1517 of next_choice(): a is what advance_node() returned
next_advanced(M, gs, a) ==
  IF a.ok
    THEN next_descended(M, gs,
           descent_node(M, [gs EXCEPT ![Len(gs)] = a.ch]))
    ELSE next_choice(M, SubSeq(gs, 1, Len(gs) - 1))

\* next_choice(state)
next_choice(M, gs) ==
  IF gs = <<>> THEN [gs |-> gs, ok |-> FALSE, fault |-> FALSE, lost |-> 0]
  ELSE next_advanced(M, gs, advance_node(M, gs[Len(gs)]))

\* cells of the term the decoder builds; a pointer is the path of argument
\* positions that leads to a cell, <<1>> being the cell of Key
Cell(k, n, i, to) == [k |-> k, n |-> n, i |-> i, to |-> to]
VarCell == Cell("var", "", 0, <<>>)
VarSeq == <<"X", "Y">>

\* *p = c
Store(cells, p, c) ==
  { x \in cells : x.at # p } \cup {[at |-> p, c |-> c]}

\* *p (a variable where nothing was stored)
Load(cells, p) ==
  IF \E x \in cells : x.at = p
    THEN (CHOOSE x \in cells : x.at = p).c
    ELSE VarCell

\* p + 1
Inc(p) == [p EXCEPT ![Len(p)] = @ + 1]

\* init_ukey_state(state, trie, valTermRef(Key)): Key is unbound, the
\* argument stack of the thread is empty and the global stack has room.
\* aTop is the argument stack above its depth at the call, short says that
\* allocGlobalNoShift() finds no room, overflow that rc is *_OVERFLOW
init_ukey_state ==
  [ptr |-> <<1>>, umode |-> "uread", aTop |-> <<>>, vars |-> <<>>,
   cells |-> {}, rc |-> TRUE, short |-> FALSE, overflow |-> FALSE]

\* init_ukey_state() for a Key that holds the cells of a term, on the
\* argument stack as the thread has it
ukey_state_at(cells, aTop, short) ==
  [init_ukey_state EXCEPT !.cells = cells, !.aTop = aTop, !.short = short]

\* deRef(p)
RECURSIVE deRefCell(_, _)
deRefCell(cells, p) ==
  IF Load(cells, p).k = "ref" THEN deRefCell(cells, Load(cells, p).to) ELSE p

\* unify_ptrs(p, v) for cells that are unbound or atomic: a binds to b, b
\* binds to a, or the two are compared
unify_ptrs(u, a, b) ==
  CASE a = b                     -> u
    [] Load(u.cells, a).k = "var" ->
         [u EXCEPT !.cells = Store(@, a, Cell("ref", "", 0, b))]
    [] Load(u.cells, b).k = "var" ->
         [u EXCEPT !.cells = Store(@, b, Cell("ref", "", 0, a))]
    [] OTHER -> [u EXCEPT !.rc = Load(u.cells, a) = Load(u.cells, b)]

\* p = state->ptr; if ( state->umode == uread ) deRef(p)
cursor(u) == IF u.umode = "uread" THEN deRefCell(u.cells, u.ptr) ELSE u.ptr

\* find_var() that loses the slots of the variables met before
find_var_forgets(u, index) ==
  [j \in 1..(IF index > Len(u.vars) THEN index ELSE Len(u.vars)) |-> <<>>]

\* find_var(state, index): a new index gets an empty slot
find_var(u, index) ==
  IF index > Len(u.vars) THEN Append(u.vars, <<>>) ELSE u.vars

\* unify_key(state, key)
unify_key(u, key) ==
  CASE key = TRIE_KEY_POP ->
         [u EXCEPT !.umode = u.aTop[Len(u.aTop)].umode,
                   !.ptr = u.aTop[Len(u.aTop)].ptr,
                   !.aTop = SubSeq(u.aTop, 1, Len(u.aTop) - 1)]
    [] key.k = "functor" ->
         CASE (u.umode = "uwrite" \/ Load(u.cells, cursor(u)).k = "var")
              /\ u.short ->
                [u EXCEPT
                   !.aTop = Append(@, [ptr |-> Inc(u.ptr), umode |-> u.umode]),
                   !.rc = FALSE, !.overflow = TRUE]
           [] u.umode = "uwrite" \/ Load(u.cells, cursor(u)).k = "var" ->
                [u EXCEPT
                   !.aTop = Append(@, [ptr |-> Inc(u.ptr), umode |-> u.umode]),
                   !.umode = "uwrite",
                   !.cells = Store(@, cursor(u), Cell("functor", key.n, key.i, <<>>)),
                   !.ptr = cursor(u) \o <<1>>]
           [] OTHER ->
                [u EXCEPT
                   !.aTop = Append(@, [ptr |-> Inc(u.ptr), umode |-> u.umode]),
                   !.ptr = cursor(u) \o <<1>>,
                   !.rc = Load(u.cells, cursor(u))
                            = Cell("functor", key.n, key.i, <<>>)]
    [] key.k = "var" ->
         CASE find_var(u, key.i)[key.i] = <<>> ->
                [u EXCEPT
                   !.vars = [find_var(u, key.i) EXCEPT ![key.i] = u.ptr],
                   !.cells = IF u.umode = "uwrite"
                               THEN Store(@, u.ptr, VarCell) ELSE @,
                   !.ptr = Inc(u.ptr)]
           [] u.umode = "uwrite" ->
                [u EXCEPT
                   !.cells = Store(@, u.ptr, Cell("ref", "", 0, u.vars[key.i])),
                   !.ptr = Inc(u.ptr)]
           [] OTHER ->
                [unify_ptrs(u, deRefCell(u.cells, u.ptr),
                            deRefCell(u.cells, u.vars[key.i]))
                   EXCEPT !.ptr = Inc(u.ptr)]
    [] OTHER ->
         IF u.umode = "uwrite" \/ Load(u.cells, cursor(u)).k = "var"
           THEN [u EXCEPT
                   !.cells = Store(@, cursor(u), Cell("atom", key.n, 0, <<>>)),
                   !.ptr = Inc(u.ptr)]
           ELSE [u EXCEPT
                   !.rc = Load(u.cells, cursor(u)) = Cell("atom", key.n, 0, <<>>),
                   !.ptr = Inc(u.ptr)]

\* the loop of unify_trie_path(): the keys of the choices from the bottom up
RECURSIVE unify_keys(_, _)
unify_keys(u, gs) ==
  IF gs = <<>> \/ u.rc # TRUE THEN u
  ELSE unify_keys(unify_key(u, Head(gs).key), Tail(gs))

\* the term at p when the decoder is done
RECURSIVE TermAt(_, _)
TermAt(u, p) ==
  CASE Load(u.cells, p).k = "functor" ->
         Cmp(Load(u.cells, p).n,
             [j \in 1..Load(u.cells, p).i |-> TermAt(u, p \o <<j>>)])
    [] Load(u.cells, p).k = "atom" -> Atom(Load(u.cells, p).n)
    [] Load(u.cells, p).k = "ref"  -> TermAt(u, Load(u.cells, p).to)
    [] OTHER ->
         IF \E j \in 1..Len(u.vars) : u.vars[j] = p /\ j <= Len(VarSeq)
           THEN Var(VarSeq[CHOOSE j \in 1..Len(u.vars) : u.vars[j] = p])
           ELSE Var("_")

\* unify_trie_path(Key, &n, state): rc and what Key is bound to
unify_trie_path(gs) ==
  [rc |-> unify_keys(init_ukey_state, gs).rc,
   key |-> TermAt(unify_keys(init_ukey_state, gs), <<1>>)]

\* the keys of the nodes from the root down to node, as unify_keys() takes them
KeysTo(path) == [i \in 1..Len(path) |-> [key |-> path[i]]]

\* rc and the term at Key once the keys are replayed
term_built(u) == [rc |-> u.rc, key |-> TermAt(u, <<1>>)]

\* unify_trie_term(node, term) with term unbound: collect the keys up to the
\* root, then unify_key() for each from the root down
unify_trie_term(T, node) ==
  term_built(unify_keys(init_ukey_state, KeysTo(PathKeys(T, node))))

\* what a call of trie_gen() did: the state of the enumeration afterwards,
\* success, the choice points, what Key and Value were unified with
GenResult(state, rc, err, gs, key, node, out) ==
  [state |-> state, rc |-> rc, err |-> err, gs |-> gs, key |-> key,
   node |-> node, out |-> out, cleared |-> FALSE, lost |-> 0]

\* clear_trie_state(state) before the call that did r returns: the table
\* enumerations of the choice points are freed with the choice points, the
\* trie is released (cleared)
clear_trie_state(r) == [r EXCEPT !.cleared = TRUE, !.gs = <<>>]

\* a read through a pointer that leads nowhere ends the process
GenFault == GenResult("fault", FALSE, "none", <<>>, Atom(""), NULL, NoValue)

\* lines 1573-1574 and 1650-1652 of trie_gen(): clear_trie_state(); FALSE
GenExhausted ==
  clear_trie_state(
    GenResult("exhausted", FALSE, "none", <<>>, Atom(""), NULL, NoValue))

\* lines 1608-1609 of trie_gen(): makeMoreStackSpace() failed, gs are the
\* choice points
GenResource(gs) ==
  clear_trie_state(
    GenResult("exhausted", FALSE, "resource_error", gs, Atom(""), NULL, NoValue))

\* lines 1640-1642 of trie_gen(): r is the last solution
gen_last(r) == IF r.state = "exhausted" THEN clear_trie_state(r) ELSE r

RECURSIVE gen_loop(_, _, _)

\* lines 1598-1647 of trie_gen(): p is what unify_trie_path() returned and
\* nx what the one call of next_choice() in this round returned
gen_unified(M, gs, Value, p, nx) ==
  CASE nx.fault -> GenFault
    [] p.rc /\ unify_value(Value, NodeAt(M, gs[Len(gs)].child).value) ->
         with_lost(
           gen_last(GenResult(IF nx.ok THEN "suspended" ELSE "exhausted", TRUE,
                              "none", nx.gs, p.key, gs[Len(gs)].child,
                              NodeAt(M, gs[Len(gs)].child).value)),
           nx.lost)
    [] OTHER -> with_lost(gen_loop(M, nx.gs, Value), nx.lost)

\* the for loop of trie_gen(), lines 1594-1652; M.overflow: the first
\* unify_trie_path() needs stack that makeMoreStackSpace() cannot give
gen_loop(M, gs, Value) ==
  CASE gs = <<>>  -> GenExhausted
    [] M.overflow -> GenResource(gs)
    [] OTHER ->
         gen_unified(M, gs, Value, unify_trie_path(gs), next_choice(M, gs))

\* line 1572 of trie_gen(): nx is what next_choice() returned
gen_next(M, Value, nx) ==
  IF nx.fault THEN GenFault
  ELSE with_lost(gen_loop(M, nx.gs, Value), nx.lost)

\* lines 1571-1576 of trie_gen(): d is what descent_node() returned
gen_descended(M, Value, d) ==
  CASE d.fault -> GenFault
    [] d.ok    -> gen_loop(M, d.gs, Value)
    [] OTHER   -> gen_next(M, Value, next_choice(M, d.gs))

\* $trie_property/2 for the properties node_count(N) and value_count(N); the
\* count is in the field out
trie_property(T, magic, name) ==
  CASE ~get_trie(magic) -> InvalidHandle(T)
    [] name = "node_count" -> Result(T, TRUE, "none", NULL, T.node_count)
    [] name = "value_count" -> Result(T, TRUE, "none", NULL, T.value_count)
    [] OTHER -> Result(T, FALSE, "none", NULL, NoValue)

\* trie_gen() called with FRG_FIRST_CALL
trie_gen_first(M, magic, Value) ==
  CASE ~get_trie(magic) ->
         GenResult("exhausted", FALSE, "existence_error(trie)", <<>>,
                   Atom(""), NULL, NoValue)
    [] M.nodes[ROOT].children.type = "none" ->
         GenResult("exhausted", FALSE, "none", <<>>, Atom(""), NULL, NoValue)
    [] OTHER ->
         gen_descended(M, Value, descent_node(M, <<add_choice(M, ROOT)>>))

(***************************************************************************)
(* Threads: insert_child() and prune_node() taken one access to shared     *)
(* memory at a time.  A call is the record of the locals of the function;  *)
(* iter counts the passes of the for(;;) of insert_child() it has begun.   *)
(***************************************************************************)
NoCall ==
  [pc |-> "idle", n |-> NULL, key |-> NoKey, children |-> NoChildren,
   new |-> NULL, ret |-> NULL, p |-> NULL, empty |-> TRUE, iter |-> 0]

\* what a read through a pointer to freed memory finds: the old content,
\* nothing, or another object that malloc has put there since
Reads == {"intact", "unmapped", "reused"}

\* children = n->children: the pointer; the table of a hashed representation
\* is read through it when it is used
Snapshot(children) ==
  IF children.type = "hashed" THEN TN_HASHED({}) ELSE children

\* the object a snapshot of the children of n points to was freed: whoever
\* replaces the representation of a node frees the old one (lines 297, 306,
\* 349 and 387)
Freed(T, n, children) ==
  /\ children.type # "none"
  /\ Snapshot(T.nodes[n].children) # children

\* *children.any as a call reads it
Deref(T, n, children, r) ==
  CASE children.type = "none" -> NoChildren
    [] ~Freed(T, n, children) -> T.nodes[n].children
    [] r = "intact"           -> children
    [] OTHER                  -> TN_HASHED({})

\* lines 372-425 of insert_child(): c is the call, mem what children.any
\* points to, shared when that is still the representation of c.n
ic_switch(T, c, mem, shared) ==
  CASE c.children.type = "none" ->
         IF CAS_ok(T.nodes[c.n].children, NoChildren)
           THEN [T |-> [T EXCEPT !.nodes[c.n].children = TN_KEY(c.key, c.new)],
                 c |-> [c EXCEPT !.pc = "ic_parent", !.ret = c.new]]
           ELSE [T |-> destroy_node(T, c.new),
                 c |-> [c EXCEPT !.pc = "ic_begin"]]
    [] mem.type = "key" ->
         IF mem.key = c.key
           THEN [T |-> T, c |-> [c EXCEPT !.pc = "done", !.ret = mem.child]]
         ELSE IF CAS_ok(T.nodes[c.n].children, c.children)
           THEN [T |-> [T EXCEPT !.nodes[c.n].children =
                          TN_HASHED({[key |-> mem.key, child |-> mem.child],
                                     [key |-> c.key, child |-> c.new]})],
                 c |-> [c EXCEPT !.pc = "ic_parent", !.ret = c.new]]
           ELSE [T |-> destroy_node(T, c.new),
                 c |-> [c EXCEPT !.pc = "ic_begin"]]
    [] addHTable(mem.table, c.key, c.new).value = c.new ->
         [T |-> IF shared
                  THEN [T EXCEPT !.nodes[c.n].children.table =
                          addHTable(mem.table, c.key, c.new).table]
                  ELSE T,
          c |-> [c EXCEPT !.pc = "ic_parent", !.ret = c.new]]
    [] OTHER ->
         [T |-> destroy_node(T, c.new),
          c |-> [c EXCEPT !.pc = "done",
                          !.ret = addHTable(mem.table, c.key, c.new).value]]

\* lines 339-343 of prune_node(): the test of the for loop and the reads
prune_read(T, c) ==
  IF c.empty /\ T.nodes[c.n].parent # NULL
    THEN [c EXCEPT !.p = T.nodes[c.n].parent,
                   !.children = Snapshot(T.nodes[T.nodes[c.n].parent].children),
                   !.pc = "p_detach"]
    ELSE [c EXCEPT !.pc = "done"]

\* lines 345-356 of prune_node(): T1 is the trie after the detach
prune_detached(T1, c, mem) ==
  [T |-> T1,
   c |-> [c EXCEPT !.pc = "p_destroy",
                   !.empty = IF mem.type = "hashed"
                               THEN deleteHTable(mem.table, T1.nodes[c.n].key) = {}
                               ELSE @]]

\* line 358 of prune_node() and the step of the for loop
prune_destroy(T, c) ==
  [T |-> destroy_node(T, c.n), c |-> [c EXCEPT !.n = c.p, !.pc = "p_loop"]]

\* lines 366-370 of insert_child(): a is what new_trie_node() returned
ic_begin(c, children, a) ==
  IF a.node = NULL
    THEN [T |-> a.T, c |-> [c EXCEPT !.pc = "done", !.ret = NULL]]
    ELSE [T |-> a.T,
          c |-> [c EXCEPT !.children = Snapshot(children), !.new = a.node,
                          !.pc = "ic_switch", !.iter = @ + 1]]

\* line 366 of insert_child() and the test of line 250 of new_trie_node():
\* the call goes on to charge the pool or returns NULL (table_space)
pool_test(T, c, children) ==
  [T |-> T,
   c |-> IF pool_fits(T)
           THEN [c EXCEPT !.children = Snapshot(children), !.pc = "ic_charge"]
           ELSE [c EXCEPT !.pc = "done", !.ret = NULL]]

\* lines 251-267 of new_trie_node() and lines 367-370 of insert_child()
pool_charge(T, c) ==
  ic_begin(c, c.children, new_node_at(pool_charged(T), c.key, PL_malloc(T)))

\* line 1442 of add_choice(): children = node->children
ac_begin(T, c, children) ==
  [T |-> T, c |-> [c EXCEPT !.children = Snapshot(children), !.pc = "ac_switch"]]

\* the frame add_choice() has built: ch->key and ch->child
ac_frame(T, c, key, child) ==
  [T |-> T, c |-> [c EXCEPT !.key = key, !.ret = child, !.pc = "done"]]

\* the first entry a new enumeration of a table gives; k and v are not
\* written for a table without entries
ac_first(table) ==
  IF table = {} THEN [key |-> NoKey, child |-> WILD]
  ELSE FirstEntry([down |-> FALSE], table)

\* lines 1445-1470 of add_choice(): c is the call, mem what children.any
\* points to, shared when that is still the representation of c.n; another
\* object read as a table gives what it gives
ac_switch(T, c, mem, shared) ==
  CASE c.children.type = "none" -> ac_frame(T, c, NoKey, c.n)
    [] mem.type = "key"         -> ac_frame(T, c, mem.key, mem.child)
    [] shared                   -> ac_frame(T, c, ac_first(mem.table).key,
                                            ac_first(mem.table).child)
    [] OTHER                    -> ac_frame(T, c, NoKey, WILD)

\* lines 388, 402 and 419 of insert_child(): new->parent = n
ic_parent(T, c) ==
  [T |-> [T EXCEPT !.nodes[c.new].parent = c.n], c |-> [c EXCEPT !.pc = "done"]]

\* the trie after n was given children for the keys, one insert_child() call
\* after the other
RECURSIVE WithChildren(_, _, _)
WithChildren(T, n, keys) ==
  IF keys = <<>> THEN T
  ELSE WithChildren(insert_child(T, n, Head(keys)).T, n, Tail(keys))

(***************************************************************************)
(* Addresses.  The address PL_malloc returns has no meaning to the program *)
(* and a node that nothing points to is never seen again, so between two   *)
(* calls the heap is kept up to renaming of addresses: the nodes reachable *)
(* from the root are numbered in preorder (children in table order) and    *)
(* the slots of unreachable nodes are forgotten.  Counters are not         *)
(* touched: a node that was detached without being un-counted stays        *)
(* counted in node_count.                                                  *)
(***************************************************************************)
\* the entries of a table in enumeration order
TableSeq(table) ==
  SortSeq(CHOOSE q \in [1..Cardinality(table) -> table] :
            \A i, j \in 1..Cardinality(table) : i # j => q[i] # q[j],
          LAMBDA e1, e2 : KeyBefore(e1.key, e2.key))

ChildSeq(c) ==
  CASE c.type = "key"    -> <<c.child>>
    [] c.type = "hashed" ->
         [i \in 1..Cardinality(c.table) |-> TableSeq(c.table)[i].child]
    [] OTHER -> <<>>

RECURSIVE Preorder(_, _)
RECURSIVE PreorderAll(_, _)
PreorderAll(T, ns) ==
  IF ns = <<>> THEN <<>>
  ELSE Preorder(T, Head(ns)) \o PreorderAll(T, Tail(ns))
Preorder(T, n) == <<n>> \o PreorderAll(T, ChildSeq(T.nodes[n].children))

\* the new address of each node, given the reachable nodes in preorder
AddressIn(order) ==
  [n \in NodeIds |->
     IF \E i \in 1..Len(order) : order[i] = n
       THEN (CHOOSE i \in 1..Len(order) : order[i] = n) - 1
       ELSE NULL]

Addresses(T) == AddressIn(Preorder(T, ROOT))

MoveNode(node, addr) ==
  [node EXCEPT
     !.parent = IF @ = NULL THEN NULL ELSE addr[@],
     !.children =
        CASE @.type = "key"    -> TN_KEY(@.key, addr[@.child])
          [] @.type = "hashed" ->
               TN_HASHED({[key |-> e.key, child |-> addr[e.child]] : e \in @.table})
          [] OTHER -> @]

MoveNodes(ns, order, addr) ==
  [i \in NodeIds |->
     IF i < Len(order) THEN MoveNode(ns[order[i + 1]], addr) ELSE FreeNode]

RenumberIn(ns, order) == MoveNodes(ns, order, AddressIn(order))

Renumber(T) == RenumberIn(T.nodes, Preorder(T, ROOT))

(***************************************************************************)
(* State                                                                   *)
(***************************************************************************)
VARIABLES
  nodes,        \* the heap of trie nodes; nodes[ROOT] is trie->root
  node_count,   \* trie->node_count
  value_count,  \* trie->value_count
  magic,        \* trie->magic
  references,   \* trie->references
  vrefs,        \* references held on each value (atom registrations, records)
  last,         \* the last predicate call and what it returned
  map,          \* the key/value pairs the successful calls so far stored
  gen,          \* the trie_gen/3 call in progress: state, choice points, Value
  yielded,      \* the solutions that call has given so far
  thr,          \* the insert_child() and prune_node() calls of the threads
  alloc_pool    \* trie->alloc_pool

vars == <<nodes, node_count, value_count, magic, references, vrefs, last, map,
          gen, yielded, thr, alloc_pool>>

Trie == [nodes |-> nodes, node_count |-> node_count,
         value_count |-> value_count, vrefs |-> vrefs, pool |-> alloc_pool]

SetTrie(T) ==
  /\ nodes' = Renumber(T)
  /\ node_count' = T.node_count
  /\ value_count' = T.value_count
  /\ vrefs' = T.vrefs
  /\ alloc_pool' = T.pool

\* the keys of the calls on a trie whose nodes lose their values: two atoms
\* and two compounds that differ in the last argument
LeafKeys ==
  { Cmp("f", <<Var("X"), Var("Y")>>),
    Cmp("f", <<Var("X"), Var("X")>>),
    Atom("a"), Atom("b") }

\* the representative of the variant class of a key
Canon(k) ==
  IF \E k2 \in Keys : Variant(k, k2)
    THEN CHOOSE k2 \in Keys : Variant(k, k2)
    ELSE CHOOSE k2 \in LeafKeys : Variant(k, k2)

\* a call and what it returned, with the node at its address after the call
Call(op, key, value, r, addr) ==
  [op |-> op, key |-> key, value |-> value, rc |-> r.rc, err |-> r.err,
   node |-> IF r.node = NULL THEN NULL ELSE addr[r.node],
   out |-> r.out]

\* no trie_gen/3 call is in progress
NoGen ==
  [state |-> "none", gs |-> <<>>, Value |-> Unbound, lost |-> 0, down |-> FALSE]

\* trie_create(): memset 0, magic = TRIE_MAGIC
EmptyTrie ==
  [nodes |-> [i \in NodeIds |-> IF i = ROOT THEN FreshNode(NoKey) ELSE FreeNode],
   node_count |-> 0, value_count |-> 0, vrefs |-> [v \in Values |-> 0],
   pool |-> NoPool]

\* a new handle on the trie T with the calls of the threads
InitWith(T, calls) ==
  /\ nodes = T.nodes
  /\ node_count = T.node_count
  /\ value_count = T.value_count
  /\ vrefs = T.vrefs
  /\ alloc_pool = T.pool
  /\ magic = TRIE_MAGIC
  /\ references = 0
  /\ last = [op |-> "trie_new", key |-> Atom(""), value |-> NoValue, rc |-> TRUE,
             err |-> "none", node |-> NULL, out |-> NoValue]
  /\ map = {}
  /\ gen = NoGen
  /\ yielded = <<>>
  /\ thr = calls

Init == InitWith(EmptyTrie, [t \in {} |-> NoCall])

\* the pairs stored after a call, given the pairs before
MapAfter(op, key, value, rc) ==
  CASE op \in {"trie_insert", "trie_update"} /\ rc ->
         { e \in map : e.key # Canon(key) } \cup {[key |-> Canon(key), value |-> value]}
    [] op = "trie_delete" /\ rc -> { e \in map : e.key # Canon(key) }
    [] OTHER -> map

\* the predicate op was called with key and value and did r; no enumeration
\* is suspended over the call
Called(op, key, value, r) ==
  /\ gen.state \notin {"suspended", "fault"}
  /\ gen' = NoGen
  /\ yielded' = <<>>
  /\ SetTrie(r.T)
  /\ last' = Call(op, key, value, r, Addresses(r.T))
  /\ map' = MapAfter(op, key, value, r.rc)
  /\ UNCHANGED thr

\* trie_insert/3
TrieInsert ==
  \E key \in Keys, value \in Values :
    /\ node_count < MaxNodeCount
    /\ Called("trie_insert", key, value,
              trie_insert(Trie, magic, key, value, FALSE))
    /\ UNCHANGED <<magic, references>>

\* trie_update/3
TrieUpdate ==
  \E key \in Keys, value \in Values :
    /\ node_count < MaxNodeCount
    /\ Called("trie_update", key, value,
              trie_insert(Trie, magic, key, value, TRUE))
    /\ UNCHANGED <<magic, references>>

\* trie_delete/3
TrieDelete ==
  \E key \in Keys, A3 \in {Unbound, AtomValue("v1")} :
    /\ Called("trie_delete", key, A3, trie_delete_pred(Trie, magic, key, A3))
    /\ UNCHANGED <<magic, references>>

\* trie_lookup/3
TrieLookup ==
  \E key \in Keys :
    /\ Called("trie_lookup", key, Unbound, trie_lookup_pred(Trie, magic, key))
    /\ UNCHANGED <<magic, references>>

Next ==
  \/ TrieInsert
  \/ TrieUpdate
  \/ TrieDelete
  \/ TrieLookup

Spec == Init /\ [][Next]_vars

\* a trie that is only inserted into
NextInserts ==
  \/ TrieInsert
  \/ TrieUpdate

SpecInserts == Init /\ [][NextInserts]_vars

\* trie_insert/3 with a key that holds an attributed variable or a cycle
TrieInsertRejected ==
  \E key \in AttVarKeys \cup CyclicKeys :
    /\ node_count < MaxNodeCount
    /\ Called("trie_insert", key, AtomValue("v1"),
              trie_insert(Trie, magic, key, AtomValue("v1"), FALSE))
    /\ UNCHANGED <<magic, references>>

\* trie_lookup/3 with such a key
TrieLookupRejected ==
  \E key \in AttVarKeys \cup CyclicKeys :
    /\ node_count < MaxNodeCount
    /\ Called("trie_lookup", key, Unbound, trie_lookup_pred(Trie, magic, key))
    /\ UNCHANGED <<magic, references>>

\* trie_delete/3 with such a key
TrieDeleteRejected ==
  \E key \in AttVarKeys \cup CyclicKeys :
    /\ node_count < MaxNodeCount
    /\ Called("trie_delete", key, Unbound,
              trie_delete_pred(Trie, magic, key, Unbound))
    /\ UNCHANGED <<magic, references>>

NextRejected ==
  \/ TrieInsert
  \/ TrieDelete
  \/ TrieLookup
  \/ TrieInsertRejected
  \/ TrieLookupRejected
  \/ TrieDeleteRejected

SpecRejected == Init /\ [][NextRejected]_vars

\* the trie is T after a step that may have emptied it (trie_empty); the
\* pairs that were stored are gone with the nodes
Kept(T) ==
  IF T = Trie
    THEN UNCHANGED <<nodes, node_count, value_count, vrefs, alloc_pool, map>>
    ELSE SetTrie(T) /\ map' = {}

\* lines 1563-1566 of trie_gen(): the reference count once the first call has
\* passed acquire_trie(trie), or not
gen_acquired(M, mg, refs) ==
  IF get_trie(mg) /\ M.nodes[ROOT].children.type # "none"
    THEN refs + 1 ELSE refs

\* trie_gen() was called with Value and did r; refs is the reference count
\* before any clear_trie_state() of the call, lost the table enumerations the
\* enumeration had not freed before the call
GenCalled(Value, r, sofar, refs, lost, down) ==
  /\ gen' = [state |-> r.state, gs |-> r.gs, Value |-> Value,
             lost |-> lost + r.lost, down |-> down]
  /\ yielded' = IF r.rc THEN Append(sofar, [key |-> r.key, value |-> r.out])
                        ELSE sofar
  /\ references' = IF r.cleared THEN refs - 1 ELSE refs
  /\ last' = [op |-> "trie_gen", key |-> r.key, value |-> Value, rc |-> r.rc,
              err |-> r.err, node |-> r.node, out |-> r.out]
  /\ Kept(IF r.cleared THEN release_trie(Trie, magic, refs - 1) ELSE Trie)
  /\ UNCHANGED <<magic, thr>>

\* trie_gen/3, first call; wild is what uninitialised memory holds
TrieGen ==
  \E Value \in {Unbound, AtomValue("v1")}, wild \in Wild :
    /\ gen.state \notin {"suspended", "fault"}
    /\ GenCalled(Value,
                 trie_gen_first([nodes |-> nodes, wild |-> wild,
                                 overflow |-> FALSE, down |-> FALSE],
                                magic, Value),
                 <<>>,
                 gen_acquired([nodes |-> nodes], magic, references), 0, FALSE)

\* trie_gen/3, redo
TrieGenRedo ==
  \E wild \in Wild :
    /\ gen.state = "suspended"
    /\ GenCalled(gen.Value,
                 gen_loop([nodes |-> nodes, wild |-> wild, overflow |-> FALSE,
                           down |-> gen.down],
                          gen.gs, gen.Value),
                 yielded, references, gen.lost, gen.down)

\* trie_gen/3, FRG_CUTTED: clear_trie_state()
TrieGenCut ==
  /\ gen.state = "suspended"
  /\ gen' = [gen EXCEPT !.state = "cut", !.gs = <<>>]
  /\ references' = references - 1
  /\ last' = [op |-> "trie_gen_cut", key |-> Atom(""), value |-> gen.Value,
              rc |-> TRUE, err |-> "none", node |-> NULL, out |-> NoValue]
  /\ Kept(release_trie(Trie, magic, references - 1))
  /\ UNCHANGED <<magic, yielded, thr>>

NextGen ==
  \/ TrieInsert
  \/ TrieUpdate
  \/ TrieDelete
  \/ TrieLookup
  \/ TrieGen
  \/ TrieGenRedo
  \/ TrieGenCut

SpecGen == Init /\ [][NextGen]_vars

LeafValue == AtomValue("v1")

\* trie_insert/3
LeafInsert ==
  \E key \in LeafKeys :
    /\ node_count < MaxNodeCount
    /\ Called("trie_insert", key, LeafValue,
              trie_insert(Trie, magic, key, LeafValue, FALSE))
    /\ UNCHANGED <<magic, references>>

\* trie_delete(trie, node, prune) was called for the node l.node that
\* trie_lookup() found for key
DeletedNode(key, prune, l) ==
  /\ l.rc = "TRUE"
  /\ gen.state \notin {"suspended", "fault"}
  /\ gen' = NoGen
  /\ yielded' = <<>>
  /\ SetTrie(trie_delete(l.T, l.node, prune))
  /\ last' = [op |-> IF prune THEN "trie_delete(prune)" ELSE "trie_delete(keep)",
              key |-> key, value |-> l.T.nodes[l.node].value,
              rc |-> l.T.nodes[l.node].value # NoValue, err |-> "none",
              node |-> NULL, out |-> NoValue]
  /\ map' = MapAfter("trie_delete", key, Unbound,
                     l.T.nodes[l.node].value # NoValue)
  /\ UNCHANGED <<magic, references, thr>>

\* trie_delete(trie, node, prune) on a node of the trie
TrieDeleteNode ==
  \E key \in LeafKeys, prune \in BOOLEAN :
    DeletedNode(key, prune, trie_lookup(Trie, key, FALSE))

\* trie_gen/3, first call, over tables whose buckets are in the other order
TrieGenDown ==
  \E wild \in Wild :
    /\ gen.state \notin {"suspended", "fault"}
    /\ GenCalled(Unbound,
                 trie_gen_first([nodes |-> nodes, wild |-> wild,
                                 overflow |-> FALSE, down |-> TRUE],
                                magic, Unbound),
                 <<>>,
                 gen_acquired([nodes |-> nodes], magic, references), 0, TRUE)

\* trie_gen/3, a call that runs out of stack: the resource error
TrieGenOverflow ==
  \E wild \in Wild :
    \/ /\ gen.state \notin {"suspended", "fault"}
       /\ GenCalled(Unbound,
                    trie_gen_first([nodes |-> nodes, wild |-> wild,
                                    overflow |-> TRUE, down |-> FALSE],
                                   magic, Unbound),
                    <<>>,
                    gen_acquired([nodes |-> nodes], magic, references), 0, FALSE)
    \/ /\ gen.state = "suspended"
       /\ GenCalled(gen.Value,
                    gen_loop([nodes |-> nodes, wild |-> wild, overflow |-> TRUE,
                              down |-> gen.down],
                             gen.gs, gen.Value),
                    yielded, references, gen.lost, gen.down)

NextLeaf ==
  \/ LeafInsert
  \/ TrieDeleteNode
  \/ TrieGen
  \/ TrieGenDown
  \/ TrieGenRedo
  \/ TrieGenCut
  \/ TrieGenOverflow

SpecLeaf == Init /\ [][NextLeaf]_vars

\* a new trie with an allocation pool that has room for PoolLimit nodes or a
\* few more (trie->alloc_pool, set by the owner of the trie)
InitBudget ==
  \E more \in 0..3 :
    InitWith([EmptyTrie EXCEPT !.pool = PoolOf(PoolLimit + more)], <<>>)

NextBudget ==
  \/ TrieInsert
  \/ TrieDelete

SpecBudget == InitBudget /\ [][NextBudget]_vars

\* the enumeration holds a reference to the trie
GenHolds == gen.state \in {"suspended", "fault"}

\* trie_destroy/1
TrieDestroy ==
  /\ magic' = IF get_trie(magic) THEN TRIE_CMAGIC ELSE magic
  /\ Kept(IF get_trie(magic) THEN trie_empty(Trie, references) ELSE Trie)
  /\ last' = [op |-> "trie_destroy", key |-> Atom(""), value |-> NoValue,
              rc |-> get_trie(magic),
              err |-> IF get_trie(magic) THEN "none" ELSE "existence_error(trie)",
              node |-> NULL, out |-> NoValue]
  /\ UNCHANGED <<references, gen, yielded, thr>>

\* a predicate that reads the trie was called, an enumeration may be suspended
\* over the call
Asked(op, name, r) ==
  /\ last' = [op |-> op, key |-> Atom(name), value |-> NoValue, rc |-> r.rc,
              err |-> r.err, node |-> NULL, out |-> r.out]
  /\ Kept(r.T)
  /\ UNCHANGED <<magic, references, gen, yielded, thr>>

\* is_trie/1
IsTrie ==
  Asked("is_trie", "",
        Result(Trie, is_trie(magic), "none", NULL, NoValue))

\* $trie_property/2
TrieProperty ==
  \E name \in {"node_count", "value_count"} :
    Asked("$trie_property", name, trie_property(Trie, magic, name))

\* acquire_trie(t) by another holder of the trie
AcquireTrie ==
  /\ references < MaxReferences
  /\ references' = references + 1
  /\ UNCHANGED <<nodes, node_count, value_count, magic, vrefs, last, map, gen,
                 yielded, thr, alloc_pool>>

\* release_trie(t) by another holder of the trie
ReleaseTrie ==
  /\ references > (IF GenHolds THEN 1 ELSE 0)
  /\ references' = references - 1
  /\ Kept(release_trie(Trie, magic, references - 1))
  /\ UNCHANGED <<magic, last, gen, yielded, thr>>

\* the keys and the value of the calls made on a trie that gets destroyed
DestroyKeys == {Atom("a"), Cmp("f", <<Var("X"), Var("Y")>>)}
DestroyValue == AtomValue("v1")

\* trie_insert/3 and trie_update/3
HandleInsert ==
  \E key \in DestroyKeys, update \in BOOLEAN :
    /\ node_count < MaxNodeCount
    /\ Called(IF update THEN "trie_update" ELSE "trie_insert", key, DestroyValue,
              trie_insert(Trie, magic, key, DestroyValue, update))
    /\ UNCHANGED <<magic, references>>

\* trie_delete/3
HandleDelete ==
  \E key \in DestroyKeys :
    /\ Called("trie_delete", key, Unbound,
              trie_delete_pred(Trie, magic, key, Unbound))
    /\ UNCHANGED <<magic, references>>

\* trie_lookup/3
HandleLookup ==
  \E key \in DestroyKeys :
    /\ Called("trie_lookup", key, Unbound, trie_lookup_pred(Trie, magic, key))
    /\ UNCHANGED <<magic, references>>

NextDestroy ==
  \/ HandleInsert
  \/ HandleDelete
  \/ HandleLookup
  \/ IsTrie
  \/ TrieProperty
  \/ TrieGen
  \/ TrieGenRedo
  \/ TrieGenCut
  \/ TrieDestroy
  \/ AcquireTrie
  \/ ReleaseTrie

SpecDestroy == Init /\ [][NextDestroy]_vars

\* a call of trie_insert/3, trie_update/3 or trie_delete/3 by a thread: the
\* arguments, the node trie_lookup() gave and what the call returned
ValueCall(op, k, v) ==
  [pc |-> "v_lookup", op |-> op, term |-> k, val |-> v, node |-> NULL,
   rc |-> FALSE]

\* the call c returns rc and leaves the trie T
v_return(T, c, rc) == [T |-> T, c |-> [c EXCEPT !.pc = "done", !.rc = rc]]

\* lines 1026-1030 of trie_insert() and 1132 of trie_delete/3: l is what
\* trie_lookup() returned
v_found(c, l) ==
  IF l.rc # "TRUE" THEN v_return(l.T, c, FALSE)
  ELSE [T |-> IF c.op = "trie_delete" THEN l.T ELSE intern_value(l.T, c.val),
        c |-> [c EXCEPT !.node = l.node, !.pc = "v_test"]]

\* if ( node->value ) of line 1032 with the branch taken when it holds, and
\* of lines 1134-1135 of trie_delete/3 with an unbound third argument
v_test(T, c) ==
  CASE c.op = "trie_delete" ->
         IF T.nodes[c.node].value # NoValue
            /\ unify_value(Unbound, T.nodes[c.node].value)
           THEN [T |-> T, c |-> [c EXCEPT !.pc = "v_prune"]]
           ELSE v_return(T, c, FALSE)
    [] T.nodes[c.node].value # NoValue ->
         v_return(insert_existing(T, c.node, c.val, c.op = "trie_update").T, c,
                  c.op = "trie_update")
    [] OTHER -> [T |-> T, c |-> [c EXCEPT !.pc = "v_set"]]

\* lines 1054-1058 of trie_insert()
v_set(T, c) == v_return(insert_new(T, c.node, c.val).T, c, TRUE)

\* lines 1136-1138 of trie_delete/3
v_prune(T, c) ==
  v_return(delete_pruned(prune_node(T, c.node), c.node, NoValue).T, c, TRUE)

\* thread t did r = [T, c]: the trie and its call afterwards
Did(t, r) ==
  /\ thr' = [thr EXCEPT ![t] = r.c]
  /\ nodes' = r.T.nodes
  /\ node_count' = r.T.node_count
  /\ value_count' = r.T.value_count
  /\ vrefs' = r.T.vrefs
  /\ alloc_pool' = r.T.pool
  /\ UNCHANGED <<magic, references, last, map, gen, yielded>>

\* a step of thread t that reads memory: r is what a read of freed memory
\* finds, and the step does `result` unless the read faults
Access(t, valid, r, result) ==
  /\ valid => r = "intact"
  /\ Did(t, IF r = "unmapped"
              THEN [T |-> Trie, c |-> [thr[t] EXCEPT !.pc = "fault"]]
              ELSE result)

\* insert_child(), lines 366-370
IcBegin(t) ==
  \E r \in {"intact", "unmapped"} :
    /\ thr[t].pc = "ic_begin"
    /\ Access(t, nodes[thr[t].n].live, r,
              ic_begin(thr[t], nodes[thr[t].n].children,
                       new_trie_node(Trie, thr[t].key)))

\* insert_child(), lines 372-425 up to the CAS or the addHTable()
IcSwitch(t) ==
  \E r \in Reads :
    /\ thr[t].pc = "ic_switch"
    /\ Access(t, ~Freed(Trie, thr[t].n, thr[t].children), r,
              ic_switch(Trie, thr[t],
                        Deref(Trie, thr[t].n, thr[t].children, r),
                        ~Freed(Trie, thr[t].n, thr[t].children)))

\* insert_child(), new->parent = n and return
IcParent(t) ==
  \E r \in {"intact", "unmapped"} :
    /\ thr[t].pc = "ic_parent"
    /\ Access(t, nodes[thr[t].new].live, r, ic_parent(Trie, thr[t]))

\* prune_node(), lines 339-343
PruneLoop(t) ==
  \E r \in {"intact", "unmapped"} :
    /\ thr[t].pc = "p_loop"
    /\ Access(t, nodes[thr[t].n].live, r,
              [T |-> Trie, c |-> prune_read(Trie, thr[t])])

\* prune_node(), lines 345-356
PruneDetach(t) ==
  \E r \in Reads :
    /\ thr[t].pc = "p_detach"
    /\ Access(t, ~Freed(Trie, thr[t].p, thr[t].children), r,
              prune_detached(
                IF Freed(Trie, thr[t].p, thr[t].children) /\ r = "reused"
                  THEN Trie
                  ELSE prune_detach(Trie, thr[t].n, thr[t].p,
                                    Deref(Trie, thr[t].p, thr[t].children, r)),
                thr[t], Deref(Trie, thr[t].p, thr[t].children, r)))

\* prune_node(), line 358 and n = p
PruneDestroy(t) ==
  /\ thr[t].pc = "p_destroy"
  /\ Did(t, prune_destroy(Trie, thr[t]))

\* a call insert_child(trie, n, key) and a call prune_node(trie, n)
InsertCall(n, key) == [NoCall EXCEPT !.pc = "ic_begin", !.n = n, !.key = key]
PruneCall(n) == [NoCall EXCEPT !.pc = "p_loop", !.n = n]

\* NThreads threads call insert_child() on the root, which has no child, one
\* child or a table of two children
InitInsertChild ==
  \E pre \in {<<>>, <<FunctorKey("f", 2)>>, <<AtomKey("a")>>,
              <<FunctorKey("f", 2), AtomKey("a")>>} :
    \E calls \in [1..NThreads ->
                    {InsertCall(ROOT, k) : k \in {AtomKey("a"), VarKey(1)}}] :
      InitWith(WithChildren(EmptyTrie, ROOT, pre), calls)

NextInsertChild ==
  \/ \E t \in DOMAIN thr : IcBegin(t)
  \/ \E t \in DOMAIN thr : IcSwitch(t)
  \/ \E t \in DOMAIN thr : IcParent(t)

SpecInsertChild == InitInsertChild /\ [][NextInsertChild]_vars

\* add_choice(), line 1442
AcBegin(t) ==
  /\ thr[t].pc = "ac_begin"
  /\ Did(t, ac_begin(Trie, thr[t], nodes[thr[t].n].children))

\* add_choice(), lines 1445-1470
AcSwitch(t) ==
  \E r \in Reads :
    /\ thr[t].pc = "ac_switch"
    /\ Access(t, ~Freed(Trie, thr[t].n, thr[t].children), r,
              ac_switch(Trie, thr[t],
                        Deref(Trie, thr[t].n, thr[t].children, r),
                        ~Freed(Trie, thr[t].n, thr[t].children)))

\* a call add_choice(state, n) of an enumeration
ChoiceCall(n) == [NoCall EXCEPT !.pc = "ac_begin", !.n = n]

\* thread 1 enumerates: it calls add_choice() on the root, which has no
\* child, one child or a table of two children, while the other threads call
\* insert_child() on the root
InitChoice ==
  \E pre \in {<<>>, <<FunctorKey("f", 2)>>, <<AtomKey("a")>>,
              <<FunctorKey("f", 2), AtomKey("a")>>} :
    \E calls \in [2..NThreads ->
                    {InsertCall(ROOT, k) : k \in {AtomKey("a"), VarKey(1)}}] :
      InitWith(WithChildren(EmptyTrie, ROOT, pre),
               [t \in 1..NThreads |->
                  IF t = 1 THEN ChoiceCall(ROOT) ELSE calls[t]])

NextChoice ==
  \/ \E t \in DOMAIN thr : AcBegin(t)
  \/ \E t \in DOMAIN thr : AcSwitch(t)
  \/ \E t \in DOMAIN thr : IcBegin(t)
  \/ \E t \in DOMAIN thr : IcSwitch(t)
  \/ \E t \in DOMAIN thr : IcParent(t)

SpecChoice == InitChoice /\ [][NextChoice]_vars

\* thread 1 prunes the leaf 2 of the branch root - 1 - 2 while the other
\* threads call insert_child() on nodes of the branch
InitPrune ==
  \E pre \in {<<AtomKey("a")>>, <<AtomKey("a"), VarKey(1)>>} :
    \E calls \in [1..NThreads ->
                    {PruneCall(2)} \cup
                    {InsertCall(n, k) : n \in {ROOT, 1, 2},
                                        k \in {AtomKey("a"), VarKey(1)}}] :
      /\ calls[1] = PruneCall(2)
      /\ \A t \in 2..NThreads : calls[t].pc = "ic_begin"
      /\ InitWith(WithChildren(WithChildren(EmptyTrie, ROOT, <<FunctorKey("f", 2)>>),
                               1, pre), calls)

NextPrune ==
  \/ \E t \in DOMAIN thr : IcBegin(t)
  \/ \E t \in DOMAIN thr : IcSwitch(t)
  \/ \E t \in DOMAIN thr : IcParent(t)
  \/ \E t \in DOMAIN thr : PruneLoop(t)
  \/ \E t \in DOMAIN thr : PruneDetach(t)
  \/ \E t \in DOMAIN thr : PruneDestroy(t)

SpecPrune == InitPrune /\ [][NextPrune]_vars

\* insert_child(), line 366, and new_trie_node(), line 250
PoolTest(t) ==
  \E r \in {"intact", "unmapped"} :
    /\ thr[t].pc = "ic_begin"
    /\ Access(t, nodes[thr[t].n].live, r,
              pool_test(Trie, thr[t], nodes[thr[t].n].children))

\* new_trie_node(), lines 251-267
PoolCharge(t) ==
  /\ thr[t].pc = "ic_charge"
  /\ Did(t, pool_charge(Trie, thr[t]))

\* NThreads threads call insert_child() on the root of a trie that has an
\* allocation pool of PoolLimit nodes, of which the root's children use some
InitPool ==
  \E pre \in {<<>>, <<FunctorKey("f", 2)>>} :
    \E calls \in [1..NThreads ->
                    {InsertCall(ROOT, k) : k \in {AtomKey("a"), VarKey(1)}}] :
      InitWith(WithChildren([EmptyTrie EXCEPT !.pool = PoolOf(PoolLimit)],
                            ROOT, pre), calls)

NextPool ==
  \/ \E t \in DOMAIN thr : PoolTest(t)
  \/ \E t \in DOMAIN thr : PoolCharge(t)
  \/ \E t \in DOMAIN thr : IcSwitch(t)
  \/ \E t \in DOMAIN thr : IcParent(t)

SpecPool == InitPool /\ [][NextPool]_vars

\* a first call of trie_gen/3 by a thread: the locals of add_choice() on the
\* root, the node of the frame once descent_node() has read it and whether
\* that node was still as trie_empty() had not touched it
StartCall ==
  [pc |-> "g_get", n |-> ROOT, children |-> NoChildren, key |-> NoKey,
   ret |-> NULL, visited |-> NULL, intact |-> TRUE]

\* a call of trie_destroy/1 by a thread
EmptyCall == [pc |-> "d_get"]

\* thread t went on to pc, leaving the trie T, its magic and its references
Raced(t, pc, T, mg, refs) ==
  /\ thr' = [thr EXCEPT ![t].pc = pc]
  /\ nodes' = T.nodes
  /\ node_count' = T.node_count
  /\ value_count' = T.value_count
  /\ vrefs' = T.vrefs
  /\ alloc_pool' = T.pool
  /\ magic' = mg
  /\ references' = refs
  /\ UNCHANGED <<last, map, gen, yielded>>

\* the node n is as trie_empty() leaves the nodes it destroys: released, and
\* freed when it had children
destroyed(T, n) == ~T.nodes[n].live \/ T.nodes[n].cleared

\* line 1566 of trie_gen(): get_trie(Trie, &trie)
StartGetTrie(t) ==
  /\ thr[t].pc = "g_get"
  /\ Raced(t, IF get_trie(magic) THEN "g_root" ELSE "rejected",
           Trie, magic, references)

\* line 1567 of trie_gen(): if ( trie->root.children.any )
StartRoot(t) ==
  /\ thr[t].pc = "g_root"
  /\ Raced(t, IF nodes[ROOT].children.type # "none" THEN "g_acquire" ELSE "done",
           Trie, magic, references)

\* line 1568 of trie_gen(): acquire_trie(trie)
StartAcquire(t) ==
  /\ thr[t].pc = "g_acquire"
  /\ Raced(t, "g_begin", Trie, magic, references + 1)

\* line 1442 of add_choice(state, &trie->root)
StartBegin(t) ==
  /\ thr[t].pc = "g_begin"
  /\ Did(t, [ac_begin(Trie, thr[t], nodes[ROOT].children)
               EXCEPT !.c.pc = "g_switch"])

\* lines 1445-1470 of add_choice(): r is what a read of the children object
\* finds when clear_node() has freed it
StartSwitch(t) ==
  \E r \in Reads :
    /\ thr[t].pc = "g_switch"
    /\ Access(t, ~Freed(Trie, ROOT, thr[t].children), r,
              [ac_switch(Trie, thr[t], Deref(Trie, ROOT, thr[t].children, r),
                         ~Freed(Trie, ROOT, thr[t].children))
                 EXCEPT !.c.pc = "g_visit"])

\* descent_node(): the reads of ch->child->children and ch->child->value
StartVisit(t) ==
  /\ thr[t].pc = "g_visit"
  /\ Did(t, [T |-> Trie,
             c |-> IF thr[t].ret \notin NodeIds
                     THEN [thr[t] EXCEPT !.pc = "fault"]
                     ELSE [thr[t] EXCEPT
                             !.visited = thr[t].ret,
                             !.intact = thr[t].ret = ROOT
                                          \/ ~destroyed(Trie, thr[t].ret),
                             !.pc = "g_release"]])

\* clear_trie_state(): release_trie(state->trie)
StartRelease(t) ==
  /\ thr[t].pc = "g_release"
  /\ Raced(t, "done", release_trie(Trie, magic, references - 1), magic,
           references - 1)

\* get_trie() of trie_destroy/1
EmptyGetTrie(t) ==
  /\ thr[t].pc = "d_get"
  /\ Raced(t, IF get_trie(magic) THEN "d_mark" ELSE "rejected",
           Trie, magic, references)

\* line 205 of trie_empty(): trie->magic = TRIE_CMAGIC
EmptyMark(t) ==
  /\ thr[t].pc = "d_mark"
  /\ Raced(t, "d_test", Trie, TRIE_CMAGIC, references)

\* line 207 of trie_empty(): if ( !trie->references )
EmptyTest(t) ==
  /\ thr[t].pc = "d_test"
  /\ Raced(t, IF references = 0 THEN "d_clear" ELSE "done",
           Trie, magic, references)

\* line 210 of trie_empty(): clear_node(trie, &trie->root, FALSE)
EmptyClear(t) ==
  /\ thr[t].pc = "d_clear"
  /\ Raced(t, "done", clear_node(Trie, ROOT, FALSE), magic, references)

\* thread 1 calls trie_destroy/1 and the other threads trie_gen/3 on a trie
\* whose root has one child or a table of two children
InitStart ==
  \E pre \in {<<AtomKey("a")>>, <<FunctorKey("f", 2)>>,
               <<FunctorKey("f", 2), AtomKey("a")>>} :
    InitWith(WithChildren(EmptyTrie, ROOT, pre),
             [t \in 1..NThreads |-> IF t = 1 THEN EmptyCall ELSE StartCall])

NextStart ==
  \/ \E t \in DOMAIN thr : StartGetTrie(t)
  \/ \E t \in DOMAIN thr : StartRoot(t)
  \/ \E t \in DOMAIN thr : StartAcquire(t)
  \/ \E t \in DOMAIN thr : StartBegin(t)
  \/ \E t \in DOMAIN thr : StartSwitch(t)
  \/ \E t \in DOMAIN thr : StartVisit(t)
  \/ \E t \in DOMAIN thr : StartRelease(t)
  \/ \E t \in DOMAIN thr : EmptyGetTrie(t)
  \/ \E t \in DOMAIN thr : EmptyMark(t)
  \/ \E t \in DOMAIN thr : EmptyTest(t)
  \/ \E t \in DOMAIN thr : EmptyClear(t)

SpecStart == InitStart /\ [][NextStart]_vars

\* the cells of a term whose arguments are atoms or distinct unbound
\* variables, with the cell of the term at p
RECURSIVE CellsAt(_, _)
CellsAt(t, p) ==
  CASE t.tag = "atom" -> {[at |-> p, c |-> Cell("atom", t.name, 0, <<>>)]}
    [] t.tag = "compound" ->
         {[at |-> p, c |-> Cell("functor", t.name, Len(t.args), <<>>)]}
           \cup UNION { CellsAt(t.args[j], p \o <<j>>) : j \in 1..Len(t.args) }
    [] OTHER -> {}

\* what the caller of trie_gen/3 passes as Key
Patterns ==
  { Var("K"), Atom("a"), Atom("b"),
    Cmp("f", <<Var("K"), Var("L")>>),
    Cmp("f", <<Atom("a"), Var("L")>>),
    Cmp("f", <<Atom("a"), Atom("b")>>),
    Cmp("g", <<Var("K")>>) }

\* the keys whose paths are replayed
DecodeKeys ==
  { Atom("a"), Cmp("f", <<Var("X"), Var("Y")>>), Cmp("f", <<Var("X"), Var("X")>>) }

\* the thread that decodes: its argument stack above the depth it had before
\* the first call, and the last call of unify_trie_path()
DecodeCall ==
  [pc |-> "decode", aTop |-> <<>>, rc |-> TRUE, overflow |-> FALSE,
   Key |-> Var("K"), path |-> Atom("a"), decodes |-> 0]

\* unify_trie_path() has run to u on the argument stack of call c
decoded(c, Key, path, u) ==
  [c EXCEPT !.aTop = u.aTop, !.rc = u.rc, !.overflow = u.overflow,
            !.Key = Key, !.path = path, !.decodes = @ + 1]

\* unify_trie_path(Key, &n, state) for the path of a key, Key rewound
UnifyTriePath ==
  \E Key \in Patterns, path \in DecodeKeys, short \in BOOLEAN :
    /\ thr[1].pc = "decode" /\ ~thr[1].overflow
    /\ thr[1].decodes < MaxDecodes
    /\ thr' = [thr EXCEPT ![1] =
                decoded(@, Key, path,
                        unify_keys(ukey_state_at(CellsAt(Key, <<1>>), @.aTop, short),
                                   KeysTo(key_tokens(path))))]
    /\ UNCHANGED <<nodes, node_count, value_count, magic, references, vrefs,
                   last, map, gen, yielded, alloc_pool>>

\* lines 1598-1606 of trie_gen(): the replay gave an overflow code, the frame
\* is rewound, makeMoreStackSpace() succeeds and the replay is done again
DecodeRestart ==
  /\ thr[1].pc = "decode" /\ thr[1].overflow
  /\ thr' = [thr EXCEPT ![1] =
              [decoded(@, @.Key, @.path,
                       unify_keys(ukey_state_at(CellsAt(@.Key, <<1>>), @.aTop, FALSE),
                                  KeysTo(key_tokens(@.path))))
                 EXCEPT !.decodes = thr[1].decodes]]
  /\ UNCHANGED <<nodes, node_count, value_count, magic, references, vrefs,
                 last, map, gen, yielded, alloc_pool>>

InitDecode == InitWith(EmptyTrie, [t \in {1} |-> DecodeCall])

NextDecode == UnifyTriePath \/ DecodeRestart

SpecDecode == InitDecode /\ [][NextDecode]_vars

\* trie_lookup() of a call of trie_insert/3, trie_update/3 or trie_delete/3
ValueLookup(t) ==
  /\ thr[t].pc = "v_lookup"
  /\ Did(t, v_found(thr[t], trie_lookup(Trie, thr[t].term,
                                        thr[t].op # "trie_delete")))

\* the test of node->value
ValueTest(t) ==
  /\ thr[t].pc = "v_test"
  /\ Did(t, v_test(Trie, thr[t]))

\* node->value = val and ATOMIC_INC(&trie->value_count)
ValueSet(t) ==
  /\ thr[t].pc = "v_set"
  /\ Did(t, v_set(Trie, thr[t]))

\* prune_node(trie, node) and ATOMIC_DEC(&trie->value_count)
ValuePrune(t) ==
  /\ thr[t].pc = "v_prune"
  /\ Did(t, v_prune(Trie, thr[t]))

\* the calls of the threads: on the same key or on different keys
ValueCalls ==
  { ValueCall("trie_insert", Atom("a"), AtomValue("v1")),
    ValueCall("trie_insert", Atom("b"), AtomValue("v1")),
    ValueCall("trie_update", Atom("a"), Record(Var("X"))),
    ValueCall("trie_delete", Atom("a"), Unbound),
    ValueCall("trie_delete", Atom("b"), Unbound) }

\* NThreads threads call a predicate each on a new trie
InitValues ==
  \E calls \in [1..NThreads -> ValueCalls] : InitWith(EmptyTrie, calls)

NextValues ==
  \/ \E t \in DOMAIN thr : ValueLookup(t)
  \/ \E t \in DOMAIN thr : ValueTest(t)
  \/ \E t \in DOMAIN thr : ValueSet(t)
  \/ \E t \in DOMAIN thr : ValuePrune(t)

SpecValues == InitValues /\ [][NextValues]_vars

(***************************************************************************)
(* Properties                                                              *)
(***************************************************************************)
\* the value stored for key k (NoValue when there is none)
StoredAt(T, k) ==
  LET l == trie_lookup(T, k, FALSE) IN
  IF l.rc = "TRUE" THEN l.T.nodes[l.node].value ELSE NoValue

Stored(k) == StoredAt(Trie, k)

\* the trie after a step
TrieNext == [nodes |-> nodes', node_count |-> node_count',
             value_count |-> value_count', vrefs |-> vrefs',
             pool |-> alloc_pool']

\* nodes attached below the root
Attached == { n \in NodeIds \ {ROOT} : nodes[n].live }

FXY == Cmp("f", <<Var("X"), Var("Y")>>)
FYX == Cmp("f", <<Var("Y"), Var("X")>>)
FXX == Cmp("f", <<Var("X"), Var("X")>>)

\* C1: the trie is a map from variant classes of keys to values: lookup(k)
\* returns the value (a recorded term up to renaming of its variables) that the
\* last successful insert or update stored for a variant of k and that no later
\* delete removed, and fails without an error when there is none.
C1_MapRefinement ==
  \A k \in Keys :
    LET r == trie_lookup_pred(Trie, magic, k) IN
    IF \E e \in map : e.key = Canon(k)
      THEN /\ r.rc
           /\ equal_value(r.out, (CHOOSE e \in map : e.key = Canon(k)).value)
      ELSE ~r.rc /\ r.err = "none"

C1_Witness ==
  /\ last.op = "trie_lookup" /\ last.rc
  /\ last.key = FYX
  /\ Cardinality(map) = 2
  /\ node_count > Cardinality(Attached)

\* C2: a trie_gen/3 call with unbound Key and Value, redone until it is
\* exhausted over a trie that is not changed meanwhile, gives exactly the stored
\* pairs, each once: it never faults, never gives a pair twice, gives only
\* stored pairs, and has given all of them when it is exhausted.
C2_EnumerationComplete ==
  gen.Value = Unbound =>
    /\ gen.state # "fault"
    /\ \A i, j \in 1..Len(yielded) :
         i # j => ~Variant(yielded[i].key, yielded[j].key)
    /\ \A i \in 1..Len(yielded) :
         \E e \in map : /\ Variant(e.key, yielded[i].key)
                        /\ equal_value(e.value, yielded[i].value)
    /\ gen.state = "exhausted" => Len(yielded) = Cardinality(map)

\* C3: once every inserted key has been deleted (with pruning), node_count is
\* back at the value it had before the insertions and value_count is zero.
C3_PruneBaseline ==
  map = {} => node_count = 0 /\ value_count = 0

\* every call of the threads has returned
Returned == \A t \in DOMAIN thr : thr[t].pc = "done"

\* the [key, child] entries of a children representation
Entries(c) ==
  CASE c.type = "key"    -> {[key |-> c.key, child |-> c.child]}
    [] c.type = "hashed" -> c.table
    [] OTHER             -> {}

\* the nodes that are reached from the nodes ns in at most d steps down
RECURSIVE Below(_, _)
Below(ns, d) ==
  IF d = 0 THEN ns
  ELSE Below(ns \cup UNION { ChildrenOf(nodes[n].children) \cap NodeIds : n \in ns },
             d - 1)

\* C4: insert_child() calls that run together on one node are linearizable per
\* key: no call reads freed memory to its harm, the representation of the node
\* always holds fully built children under their own keys, no child is lost,
\* and once all calls have returned each has returned the one child the node
\* has for its key.
C4_Linearizable ==
  /\ \A t \in DOMAIN thr : thr[t].pc # "fault"
  /\ \A e \in Entries(nodes[ROOT].children) :
       e.child \in NodeIds /\ nodes[e.child].live /\ nodes[e.child].key = e.key
  /\ \A n \in NodeIds :
       nodes[n].live /\ nodes[n].parent = ROOT
         => get_child(Trie, ROOT, nodes[n].key) = n
  /\ Returned =>
       \A t \in DOMAIN thr :
         thr[t].ret # NULL /\ thr[t].ret = get_child(Trie, ROOT, thr[t].key)

\* C5: once all insert_child() calls have returned, node_count is the number
\* of nodes attached below the root: no node that was allocated and not
\* published is still counted.
C5_NoLeak ==
  Returned => node_count = Cardinality(Below({ROOT}, MaxNodes) \ {ROOT})

\* C6: prune_node() destroys a node only when the node is no longer among the
\* children of its parent, and the step that takes a node out of the children
\* of its parent finds the node without children.
C6_PruneWinsDetach ==
  [][\A t \in DOMAIN thr :
       /\ (thr[t].pc = "p_destroy" /\ thr'[t].pc = "p_loop")
            => thr[t].n \notin ChildrenOf(nodes[thr[t].p].children)
       /\ (/\ thr[t].pc = "p_detach" /\ thr'[t].pc = "p_destroy"
           /\ thr[t].n \in ChildrenOf(nodes[thr[t].p].children)
           /\ thr[t].n \notin ChildrenOf(nodes'[thr[t].p].children))
            => nodes[thr[t].n].children.type = "none"]_vars

\* C7: a strict insert of a value for a key that holds a structurally different
\* value raises the permission error, fails, and changes neither the stored
\* value nor value_count nor node_count.
C7_StrictConflict ==
  [][ ( /\ last'.op = "trie_insert"
        /\ Stored(last'.key) # NoValue
        /\ ~equal_value(Stored(last'.key), last'.value) )
      => ( /\ ~last'.rc
           /\ last'.err = "permission_error(modify,trie_key)"
           /\ StoredAt(TrieNext, last'.key) = Stored(last'.key)
           /\ nodes' = nodes
           /\ value_count' = value_count
           /\ node_count' = node_count ) ]_vars

C7_Witness ==
  /\ last.op = "trie_insert"
  /\ last.err = "permission_error(modify,trie_key)"
  /\ last.out # NoValue /\ ~equal_value(last.out, last.value)

C9_Idempotent ==
  [][ ( /\ last'.op \in {"trie_insert", "trie_update"}
        /\ Stored(last'.key) # NoValue
        /\ equal_value(Stored(last'.key), last'.value) )
      => ( /\ nodes' = nodes
           /\ node_count' = node_count
           /\ value_count' = value_count
           /\ vrefs' = vrefs
           /\ last'.err = "none"
           /\ last'.rc = (last'.op = "trie_update") ) ]_vars

C9_Witness ==
  /\ last.op = "trie_insert" /\ ~last.rc /\ last.err = "none"
  /\ last.key = FYX
  /\ last.out = Record(Var("X")) /\ last.value = Record(Var("Y"))

\* C10: keys that are variants of each other reach the same node over the same
\* token sequence (variables numbered by first occurrence); keys that are not
\* variants, such as f(X,Y) and f(X,X), reach different nodes.
C10_VariantInvariance ==
  /\ \A k1, k2 \in Keys :
       LET l1 == trie_lookup(Trie, k1, FALSE)
           l2 == trie_lookup(Trie, k2, FALSE)
       IN (l1.rc = "TRUE" /\ l2.rc = "TRUE")
            => /\ (l1.node = l2.node) = Variant(k1, k2)
               /\ (PathKeys(Trie, l1.node) = PathKeys(Trie, l2.node)) = Variant(k1, k2)
  /\ \A k \in {FXY, FYX} :
       LET l == trie_lookup(Trie, k, FALSE) IN
       l.rc = "TRUE" =>
         PathKeys(Trie, l.node) =
           <<FunctorKey("f", 2), VarKey(1), VarKey(2), TRIE_KEY_POP>>
  /\ LET l == trie_lookup(Trie, FXX, FALSE) IN
     l.rc = "TRUE" =>
       PathKeys(Trie, l.node) =
         <<FunctorKey("f", 2), VarKey(1), VarKey(1), TRIE_KEY_POP>>

C10_Witness ==
  /\ last.op = "trie_lookup" /\ last.rc /\ last.key = FYX
  /\ Stored(FXY) # NoValue /\ Stored(FXX) # NoValue
  /\ Stored(FXY) # Stored(FXX)

\* C11: the term rebuilt from the node of a key (the keys on the path from the
\* root replayed into an unbound term) is the key up to renaming of variables,
\* a variable that occurs twice in the key being one variable in the result.
C11_RoundTrip ==
  /\ \A k \in Keys :
       trie_lookup(Trie, k, FALSE).rc = "TRUE"
         => /\ unify_trie_term(Trie, trie_lookup(Trie, k, FALSE).node).rc
            /\ Variant(k, unify_trie_term(Trie, trie_lookup(Trie, k, FALSE).node).key)
  /\ (last.op \in {"trie_insert", "trie_update"} /\ last.rc)
       => Variant(last.key, unify_trie_term(Trie, last.node).key)

C11_Witness ==
  /\ last.op = "trie_insert" /\ last.rc /\ last.key = FXX
  /\ unify_trie_term(Trie, last.node).key = FXX
  /\ Stored(FXY) # NoValue

\* the node trie_lookup() finds for key k, NULL when it finds none
NodeOf(k) ==
  IF trie_lookup(Trie, k, FALSE).rc = "TRUE"
    THEN trie_lookup(Trie, k, FALSE).node ELSE NULL

\* C12: a node holds a value if and only if it ends the token sequence of
\* exactly one stored key (keys taken up to renaming), every stored key ends
\* at a node, and keys that are not variants never resolve to one node.
C12_Uniqueness ==
  /\ \A n \in NodeIds :
       nodes[n].live =>
         ((nodes[n].value # NoValue)
            <=> Cardinality({e \in map : NodeOf(e.key) = n}) = 1)
  /\ \A e \in map : NodeOf(e.key) # NULL
  /\ \A k1, k2 \in Keys :
       (NodeOf(k1) # NULL /\ NodeOf(k1) = NodeOf(k2)) => Variant(k1, k2)

C12_Witness ==
  /\ last.op = "trie_delete" /\ last.rc /\ last.key = Atom("a")
  /\ Cardinality(map) = 2
  /\ Cardinality({n \in NodeIds : nodes[n].live /\ nodes[n].value # NoValue}) = 2

\* the token sequences of the nodes attached in T
Paths(T) == { PathKeys(T, n) : n \in { m \in NodeIds \ {ROOT} : T.nodes[m].live } }

\* s is a prefix of t
IsPrefix(s, t) == Len(s) <= Len(t) /\ SubSeq(t, 1, Len(s)) = s

\* C13: a delete (with pruning) of a stored key leaves every other stored pair
\* retrievable with its value, and every node on the path of another stored
\* key, such as a shared functor node, stays attached.
C13_PrunePreservesOthers ==
  [][ (last'.op = "trie_delete" /\ last'.rc)
      => /\ \A k \in Keys :
              ~Variant(k, last'.key) => StoredAt(TrieNext, k) = Stored(k)
         /\ \A k \in Keys :
              (~Variant(k, last'.key) /\ Stored(k) # NoValue)
                => \A q \in Paths(Trie) :
                     IsPrefix(q, PathKeys(Trie, NodeOf(k))) => q \in Paths(TrieNext)
         /\ StoredAt(TrieNext, last'.key) = NoValue ]_vars

C13_Witness ==
  /\ last.op = "trie_delete" /\ last.rc /\ last.key = FXY
  /\ Stored(FXX) # NoValue /\ Stored(Atom("a")) # NoValue
  /\ Stored(FXY) = NoValue
  /\ get_child(Trie, ROOT, FunctorKey("f", 2)) # NULL

\* the non-empty prefixes of the token sequences of the keys ks
Prefixes(ks) ==
  UNION { { SubSeq(key_tokens(k), 1, i) : i \in 1..Len(key_tokens(k)) } : k \in ks }

\* C14: after inserts into an empty trie node_count is the number of distinct
\* non-empty prefixes of the token sequences of the inserted keys, a prefix
\* that several keys share being one node.
C14_PrefixSharing ==
  /\ node_count = Cardinality(Prefixes({e.key : e \in map}))
  /\ Paths(Trie) = Prefixes({e.key : e \in map})

C14_Witness ==
  /\ Stored(FXY) # NoValue /\ Stored(FXX) # NoValue /\ Stored(Atom("a")) # NoValue
  /\ node_count = 7
  /\ last.op = "trie_insert" /\ last.rc

\* the call before this state was given up because of its key
Rejected(l) ==
  l.err \in {"type_error(free_of_attvar)", "type_error(acyclic_term)"}

\* C15: an insert that is given up because its key holds an attributed
\* variable or a cycle leaves no node of its walk attached, the node for the
\* error key included, and node_count is what it was before the call.
C15_AbortRestoresCount ==
  [][ (last'.op = "trie_insert" /\ Rejected(last'))
      => /\ Paths(TrieNext) = Paths(Trie)
         /\ node_count' = node_count ]_vars

\* C16: a call that is given up because of its key leaves every stored pair
\* retrievable with its value and every node on the path of a stored key
\* attached, also when the key shares a prefix with stored keys.
C16_RejectionKeepsStored ==
  [][ Rejected(last')
      => /\ \A k \in Keys : StoredAt(TrieNext, k) = Stored(k)
         /\ \A k \in Keys :
              Stored(k) # NoValue
                => \A q \in Paths(Trie) :
                     IsPrefix(q, PathKeys(Trie, NodeOf(k))) => q \in Paths(TrieNext)
         /\ value_count' = value_count ]_vars

C16_Witness ==
  /\ Rejected(last) /\ last.op = "trie_insert"
  /\ last.key = Cmp("f", <<Var("X"), AttVar("Y")>>)
  /\ Stored(FXY) # NoValue /\ Stored(Atom("a")) # NoValue

\* C17: an insert of a key that holds a cycle fails with the acyclic_term
\* type error, wherever the cycle lies among the compounds of the key.
C17_CyclicRejected ==
  (last.op = "trie_insert" /\ last.key \in CyclicKeys)
    => ~last.rc /\ last.err = "type_error(acyclic_term)"

\* C18: trie_lookup() with add = FALSE changes nothing in the trie: no node is
\* created, no children representation is changed and node_count stays, for
\* stored, absent and rejected keys.
C18_LookupPure ==
  \A k \in Keys \cup AttVarKeys \cup CyclicKeys :
    trie_lookup(Trie, k, FALSE).T = Trie

\* C19: when trie_lookup() returns, found or not or with an error, no variable
\* of the key holds the number the walk wrote into it.
C19_KeyUnchanged ==
  \A k \in Keys \cup AttVarKeys \cup CyclicKeys, add \in BOOLEAN :
    (add => node_count < MaxNodeCount)
      => trie_lookup(Trie, k, add).marks = NoMarks

C19_Witness ==
  /\ last.op = "trie_lookup" /\ Rejected(last)
  /\ last.key = Cmp("f", <<Var("X"), AttVar("Y")>>)
  /\ Stored(FXY) # NoValue
  /\ trie_lookup(Trie, FXY, FALSE).rc = "TRUE"

\* C20: the usage of the allocation pool of a trie never exceeds its limit,
\* also when several threads allocate, and a call that is refused a node
\* changes neither the usage of the pool nor node_count nor any node.
C20_AllocationBudget ==
  /\ [](alloc_pool.on => alloc_pool.size <= alloc_pool.limit)
  /\ [][\A t \in DOMAIN thr :
          (thr[t].pc = "ic_begin" /\ thr'[t].pc = "done")
            => /\ thr'[t].ret = NULL
               /\ alloc_pool' = alloc_pool
               /\ node_count' = node_count
               /\ nodes' = nodes]_vars

\* C21: a trie_destroy/1 while the trie is referenced destroys no node; the
\* nodes are detached from the root, and the values released, by the release
\* that leaves no reference and not by a step before it; a release that leaves
\* no reference to a trie that was not destroyed changes nothing.
C21_EmptyDeferred ==
  [][ /\ (magic = TRIE_MAGIC /\ magic' = TRIE_CMAGIC /\ references > 0)
           => nodes' = nodes /\ vrefs' = vrefs /\ node_count' = node_count
      /\ (magic = TRIE_CMAGIC /\ references > 0 /\ references' > 0)
           => nodes' = nodes /\ vrefs' = vrefs /\ node_count' = node_count
      /\ (magic = TRIE_CMAGIC /\ references > 0 /\ references' = 0)
           => /\ nodes'[ROOT].children = NoChildren
              /\ \A v \in Values : vrefs'[v] = 0
              /\ (nodes[ROOT].children # NoChildren => nodes' # nodes)
      /\ (magic' = TRIE_MAGIC /\ references > 0 /\ references' = 0)
           => nodes' = nodes /\ vrefs' = vrefs /\ node_count' = node_count ]_vars

C21_Witness ==
  /\ magic = TRIE_CMAGIC /\ references = 0
  /\ last.op = "trie_gen" /\ gen.state = "exhausted" /\ Len(yielded) = 2
  /\ nodes[ROOT].children = NoChildren

\* the predicates that take a trie handle and are not trie_destroy/1
HandleOps ==
  {"trie_insert", "trie_update", "trie_lookup", "trie_delete", "$trie_property",
   "trie_gen"}

\* C22: once trie_destroy/1 has returned, is_trie/1 fails and every call of
\* trie_insert/3, trie_update/3, trie_lookup/3, trie_delete/3, $trie_property/2
\* and every first call of trie_gen/3 fails with existence_error(trie) and
\* leaves the nodes, the counts and the values as they were, also while
\* references are held and the nodes are still there.
C22_DestroyedRejected ==
  /\ [](magic = TRIE_CMAGIC => ~is_trie(magic))
  /\ [][ (magic = TRIE_CMAGIC /\ last' # last /\ last'.op \in HandleOps
           /\ (last'.op = "trie_gen" => ~GenHolds))
          => /\ ~last'.rc
             /\ last'.err = "existence_error(trie)"
             /\ nodes' = nodes /\ vrefs' = vrefs
             /\ node_count' = node_count /\ value_count' = value_count
             /\ references' = references ]_vars
  /\ [][ (magic = TRIE_CMAGIC /\ last' # last /\ last'.op = "is_trie")
          => ~last'.rc /\ nodes' = nodes ]_vars

\* a call was rejected while the nodes of the destroyed trie were still there
C22_Witness ==
  /\ magic = TRIE_CMAGIC /\ references > 0
  /\ nodes[ROOT].children # NoChildren
  /\ last.op = "$trie_property" /\ last.err = "existence_error(trie)"

\* the table enumerations the choice points of the enumeration hold
Tables == Cardinality({ i \in 1..Len(gen.gs) : gen.gs[i].table.on })

\* C23: an enumeration that has ended (no solution, last solution, exhausted,
\* cut, resource error) holds no reference to the trie and has freed every
\* table enumeration it created; a suspended one holds one reference.
C23_EnumeratorReleases ==
  /\ gen.state \in {"none", "exhausted", "cut"}
       => references = 0 /\ Tables = 0 /\ gen.lost = 0
  /\ gen.state = "suspended" => references = 1

\* the part of C23 about the reference: ended enumerations hold none,
\* suspended ones hold one
C23_ReferenceReleased ==
  /\ gen.state \in {"none", "exhausted", "cut"} => references = 0
  /\ gen.state = "suspended" => references = 1

\* C27: with childless nodes without a value in the trie, a trie_gen/3 call
\* with unbound Key and Value, redone until it is exhausted and not by a
\* resource error, has given every stored pair, and none twice.
C27_ValuelessLeafHidesNothing ==
  (gen.Value = Unbound /\ gen.state = "exhausted" /\ last.op = "trie_gen"
     /\ last.err = "none")
    => /\ Len(yielded) = Cardinality(map)
       /\ \A i, j \in 1..Len(yielded) :
            i # j => ~Variant(yielded[i].key, yielded[j].key)

\* C28: trie_delete(trie, node, FALSE) on a node with a value takes the value
\* from the node, releases it and counts value_count down by one; no node is
\* detached or freed, node_count and every other node are as before; on a
\* node without a value nothing changes.
C28_DeleteKeepsNode ==
  [][ last'.op = "trie_delete(keep)" /\ last' # last
      => /\ node_count' = node_count
         /\ value_count' = value_count - (IF last'.rc THEN 1 ELSE 0)
         /\ \E n \in NodeIds :
              /\ nodes[n].value = last'.value
              /\ nodes' = [nodes EXCEPT ![n].value = NoValue]
         /\ last'.rc => vrefs' = [vrefs EXCEPT ![last'.value] = @ - 1]
         /\ ~last'.rc => vrefs' = vrefs ]_vars

\* a value was deleted and its node is a childless node of the trie
C28_Witness ==
  /\ last.op = "trie_delete(keep)" /\ last.rc
  /\ \E n \in Attached \ {ROOT} :
       nodes[n].value = NoValue /\ nodes[n].children = NoChildren

\* C24: a trie_gen/3 call on a trie that holds no pair, never used or with
\* every key deleted again by trie_delete/3, gives nothing and ends exhausted
\* without a read through a pointer that is not a node.
C24_EmptyExhausted ==
  (map = {} /\ last.op = "trie_gen")
    => gen.state = "exhausted" /\ ~last.rc /\ yielded = <<>>

\* C25, the safety half: the choice frame that add_choice() builds for the
\* root while other threads insert children refers to the root (no children)
\* or to a node that is a child of the root under the key of the frame, and
\* the call reads no freed memory to its harm.
C25_FrameRefersToNode ==
  /\ thr[1].pc # "fault"
  /\ thr[1].pc = "done" =>
       \/ thr[1].ret = ROOT
       \/ \E e \in Entries(nodes[ROOT].children) :
            e.child = thr[1].ret /\ e.key = thr[1].key

\* the children representation of the node of T at the end of the token
\* sequence p ("absent" when no node is attached there)
KindAt(T, p) ==
  CASE p = <<>> -> T.nodes[ROOT].children.type
    [] \E n \in NodeIds \ {ROOT} : T.nodes[n].live /\ PathKeys(T, n) = p ->
         T.nodes[CHOOSE n \in NodeIds \ {ROOT} :
                   T.nodes[n].live /\ PathKeys(T, n) = p].children.type
    [] OTHER -> "absent"

\* every node that is attached before and after the step changed its
\* children representation by one of the moves, or not at all
MovesWithin(moves) ==
  \A p \in Paths(Trie) \cup {<<>>} :
    \/ KindAt(TrieNext, p) = "absent"
    \/ KindAt(TrieNext, p) = KindAt(Trie, p)
    \/ <<KindAt(Trie, p), KindAt(TrieNext, p)>> \in moves

\* C26 as stated: over inserts, updates and deletes with pruning, the children
\* representation of a node that stays attached only moves from Empty to
\* Single and from Single to Hashed.
C26_OnlyUpgrades ==
  [][MovesWithin({<<"none", "key">>, <<"key", "hashed">>})]_vars

\* C26, amended: the children representation of a node that stays attached
\* moves from Empty to Single, from Single to Hashed and, when its only child
\* is pruned, from Single to Empty; a Hashed representation stays Hashed.
C26_NoDowngrade ==
  [][MovesWithin({<<"none", "key">>, <<"key", "hashed">>, <<"key", "none">>})]_vars

\* the root is Hashed with one entry after a delete took the other
C26_Witness ==
  /\ last.op = "trie_delete" /\ last.rc
  /\ nodes[ROOT].children.type = "hashed"
  /\ Cardinality(nodes[ROOT].children.table) = 1

\* C29: a trie_insert/3 whose walk ends because a node could not be allocated
\* leaves node_count as it was and leaves no node attached that was not
\* attached before the call.
C29_NoPartialPath ==
  [][ (last'.op = "trie_insert" /\ last' # last
       /\ trie_lookup(Trie, last'.key, TRUE).rc = "FALSE")
      => /\ node_count' = node_count
         /\ Paths(TrieNext) \subseteq Paths(Trie) ]_vars

\* C30: over trie_insert/3, trie_update/3 and trie_delete/3, every node that
\* holds a value has no children, and the token sequence of a key is a prefix
\* of the token sequence of another key only when the two are the same.
C30_ValuesInLeaves ==
  /\ \A n \in NodeIds :
       (nodes[n].live /\ nodes[n].value # NoValue)
         => nodes[n].children = NoChildren
  /\ \A k1, k2 \in Keys :
       IsPrefix(key_tokens(k1), key_tokens(k2))
         => key_tokens(k1) = key_tokens(k2)

\* two keys that share the first tokens are stored, each with its value
C30_Witness ==
  /\ Stored(FXY) # NoValue /\ Stored(FXX) # NoValue
  /\ Cardinality({n \in NodeIds : nodes[n].live /\ nodes[n].value # NoValue}) = 2
  /\ last.op = "trie_update"

\* C31: when the threads only call insert_child() on a node and allocation
\* succeeds, no call begins a fourth pass of its loop and every call goes on
\* to its return: none is stopped by a read of memory another call freed.
C31_BoundedRetries ==
  \A t \in DOMAIN thr : thr[t].iter <= 3 /\ thr[t].pc # "fault"

\* the bound on the passes of the loop alone
C31_ThreePasses ==
  \A t \in DOMAIN thr : thr[t].iter <= 3

\* a call returns in its third pass
C31_ThirdPass ==
  \E t \in DOMAIN thr : thr[t].iter = 3 /\ thr[t].pc = "done"

\* the nodes below the root that hold a value
Valued == { n \in Below({ROOT}, MaxNodes) : nodes[n].value # NoValue }

\* C32: once every call of the threads has returned, value_count is the
\* number of attached nodes that hold a value; it is never below zero.
C32_ValueCountExact ==
  /\ value_count >= 0
  /\ (\A t \in DOMAIN thr : thr[t].pc = "done")
       => value_count = Cardinality(Valued)

\* C33: when unify_trie_path() returns, with TRUE, with FALSE or with an
\* overflow code that makes the caller replay the path again, the argument
\* stack of the thread is as it was when the call began.
C33_ReturnStackBalanced ==
  [][thr'[1].aTop = thr[1].aTop]_vars

\* a replay that succeeds leaves the argument stack as it was
C33_BalancedOnSuccess ==
  [][(thr'[1].rc /\ ~thr[1].overflow) => thr'[1].aTop = thr[1].aTop]_vars

\* C34: when trie_destroy/1 runs together with first calls of trie_gen/3,
\* an enumeration is rejected by get_trie() or the nodes are cleared only
\* after it has released the trie: no enumeration reads memory clear_node()
\* has freed, and none visits a node trie_empty() has destroyed.
C34_NoDestroyedNodeWalked ==
  \A t \in 2..NThreads :
    /\ thr[t].pc # "fault"
    /\ thr[t].visited # NULL => thr[t].intact

\* an enumeration that acquired the trie before trie_empty() tested the
\* references visits its node intact, and the nodes are cleared at its release
C34_Deferred ==
  \E t \in 2..NThreads :
    /\ thr[t].pc = "done" /\ thr[t].visited # NULL /\ thr[t].intact
    /\ thr[1].pc = "done" /\ magic = TRIE_CMAGIC
    /\ nodes[ROOT].children = NoChildren

====
